---- MODULE Spec2Model ----
(***************************************************************************)
(* Model of the chunking, merging and similarity code of the document      *)
(* assistant (lib/chunking.ts, lib/utils.ts, lib/database.ts,              *)
(* lib/ai-services.ts).  Strings are TLA+ strings; characters are strings  *)
(* of length one and string indices are 0-based as in JavaScript.          *)
(***************************************************************************)
EXTENDS Integers, Sequences, FiniteSets, TLC

VARIABLES
    content,         \* document.content (meaningful when contentPresent)
    contentPresent,  \* FALSE models document.content === undefined
    chunkSize,       \* DocumentChunkingService.chunkSize
    chunkOverlap,    \* DocumentChunkingService.chunkOverlap
    startIndex,      \* loop variable of chunkDocument
    chunkIndex,      \* loop variable of chunkDocument
    chunks,          \* the chunks array of chunkDocument
    windows,         \* history: the windows walked by the loop, in order
    pc,              \* position in chunkDocument / processDocument
    caller,          \* "direct" or "processDocument"
    thrown,          \* kind of the error that reached the caller, or "none"
    result,          \* what processDocument returned (chunks with embeddings)
    mInput,          \* the chunks argument of mergeSimilarChunks
    mInputAtCall,    \* history: the argument's chunk objects as they were at the call
    merged,          \* the merged array of mergeSimilarChunks
    currentChunk,    \* loop variable of mergeSimilarChunks
    mi,              \* loop index i of mergeSimilarChunks (0-based)
    mpc,             \* position in mergeSimilarChunks
    mergeLog,        \* history: one record per merge performed
    simForm,         \* which similarity form is called ("...Call") or has returned
    simArgs,         \* its two arguments
    simResult,       \* its result
    rStore,          \* the documentChunk table, in the order findMany lists it
    rQuery,          \* the query: embedding, documentIds, k (limit / maxResults)
    rEntry,          \* the function called: "findSimilarChunks" or "processQuery"
    rDbFails,        \* TRUE when prisma.documentChunk.findMany rejects
    rpc,             \* position in processQuery / findSimilarChunks
    rLimit,          \* history: the limit findSimilarChunks was called with
    rCandidates,     \* history: chunksWithSimilarity of findSimilarChunks
    rSearchFailed,   \* history: TRUE once findSimilarChunks has thrown
    rReturned,       \* the chunks returned to the caller
    rThrown,         \* kind of the error that reached the caller, or "none"
    docStatus,       \* document.status of each document row ("none": no row)
    docContent,      \* the content extracted from each uploaded file
    upc,             \* position of each upload request and its processDocumentAsync
    docChunks,       \* number of chunks processDocument produced for each document
    statusLog,       \* history: the statuses each document row has had, in order
    lStore,          \* the documentChunk table, in the order findMany lists it
    qpc,             \* position of the query request
    qScope,          \* queryRequest.documentIds
    qReturned,       \* relevantChunks of processQuery, cited as sources
    qStatusAtSearch, \* history: every document's status when the search ran
    tForm,           \* which text function is called ("...Call") or has returned
    tArg,            \* its content argument
    tResult,         \* its result
    rtImpl,          \* which retryWithBackoff runs: "utils" or "error-handling"
    rtMaxRetries,    \* its maxRetries argument
    rtOutcomes,      \* how each invocation of fn settles, in order
    rtAttempt,       \* loop variable attempt
    rtpc,            \* position in retryWithBackoff
    rtInvocations,   \* history: number of invocations of fn started
    rtInFlight,      \* history: invocations of fn started and not settled
    rtSleeps,        \* history: the delays slept, in order
    rtLastError,     \* lastError
    rtResult,        \* what retryWithBackoff returned or threw
    pServerStatus,   \* document.status of the uploaded document on the server
    pDocuments,      \* the documents state: the status it holds for the document
    pCaptured,       \* the documents value the running pollDocumentStatus closed over
    pAttempt,        \* loop variable attempt of pollDocumentStatus
    ppc,             \* position in pollDocumentStatus
    pFetched,        \* what the loadDocuments of the current poll fetched
    pCompleted,      \* history: what the last poll that ran to its end had fetched
    pUiState,        \* uiState: the success or error message set by the poll
    embCompleted,    \* history: each document's embedding calls that settled, in order
    embeddings,      \* the embeddings array of generateEmbeddings, for each document
    rQuestion,       \* request.question of processQuery
    rContentOf,      \* the content column of the stored chunks, by row id
    rSources         \* the sources of the QueryResponse processQuery returned

chunkVars == <<content, contentPresent, chunkSize, chunkOverlap, startIndex,
               chunkIndex, chunks, windows, pc, caller, thrown, result>>

mergeVars == <<mInput, mInputAtCall, merged, currentChunk, mi, mpc, mergeLog>>

simVars == <<simForm, simArgs, simResult>>

rankVars == <<rStore, rQuery, rEntry, rDbFails, rpc, rLimit, rCandidates,
              rSearchFailed, rReturned, rThrown>>

lifeVars == <<docStatus, docContent, upc, docChunks, statusLog, lStore, qpc,
              qScope, qReturned, qStatusAtSearch>>

textVars == <<tForm, tArg, tResult>>

retryVars == <<rtImpl, rtMaxRetries, rtOutcomes, rtAttempt, rtpc, rtInvocations,
               rtInFlight, rtSleeps, rtLastError, rtResult>>

pollVars == <<pServerStatus, pDocuments, pCaptured, pAttempt, ppc, pFetched,
              pCompleted, pUiState>>

embedVars == <<embCompleted, embeddings>>

sourceVars == <<rQuestion, rContentOf, rSources>>

vars == <<chunkVars, mergeVars, simVars, rankVars, lifeVars, textVars,
          retryVars, pollVars, embedVars, sourceVars>>

notChunkVars == <<mergeVars, simVars, rankVars, lifeVars, textVars,
                  retryVars, pollVars, embedVars, sourceVars>>
notMergeVars == <<chunkVars, simVars, rankVars, lifeVars, textVars,
                  retryVars, pollVars, embedVars, sourceVars>>
notSimVars == <<chunkVars, mergeVars, rankVars, lifeVars, textVars,
                retryVars, pollVars, embedVars, sourceVars>>
notRankSourceVars == <<chunkVars, mergeVars, simVars, lifeVars, textVars, retryVars,
                       pollVars, embedVars>>
notRankVars == <<notRankSourceVars, sourceVars>>

notTextVars == <<chunkVars, mergeVars, simVars, rankVars, lifeVars,
                 retryVars, pollVars, embedVars, sourceVars>>

notRetryVars == <<chunkVars, mergeVars, simVars, rankVars, lifeVars,
                  textVars, pollVars, embedVars, sourceVars>>

notPollVars == <<chunkVars, mergeVars, simVars, rankVars, lifeVars, textVars,
                 retryVars, embedVars, sourceVars>>

\* the upload and query routes use the chunker's content, configuration,
\* startIndex and chunkIndex and leave the rest alone
notLifeEmbedVars == <<chunks, windows, pc, caller, thrown, result, mergeVars,
                      simVars, rankVars, textVars, retryVars, pollVars, sourceVars>>

notLifeVars == <<notLifeEmbedVars, embedVars>>

-----------------------------------------------------------------------------
(* Bounds of the model *)

MaxLen == 4
MaxChunkSize == 3
MaxOverlap == 3
MaxWindows == 5

(* Program constants *)

DefaultChunkSize == 1000
DefaultChunkOverlap == 200

-----------------------------------------------------------------------------
(* JavaScript string primitives *)

Min2(a, b) == IF a < b THEN a ELSE b
Max2(a, b) == IF a > b THEN a ELSE b
SetMax(S) == CHOOSE m \in S : \A x \in S : x <= m
SetMin(S) == CHOOSE m \in S : \A x \in S : m <= x

Alphabet == {"a", " ", ".", "\n"}

CharAt(s, i) == SubSeq(s, i + 1, i + 1)

IsWhitespace(c) == c \in {" ", "\n"}

\* String.prototype.substring: arguments clamped to [0, length], swapped if reversed
Substring(s, a, b) ==
    LET ca == Max2(0, Min2(a, Len(s)))
        cb == Max2(0, Min2(b, Len(s)))
        lo == Min2(ca, cb)
        hi == Max2(ca, cb)
    IN  SubSeq(s, lo + 1, hi)

\* String.prototype.lastIndexOf(c, fromIndex): fromIndex clamped to [0, length]
LastIndexOf(s, c, from) ==
    LET f == Max2(0, Min2(from, Len(s)))
        S == {i \in 0..Min2(f, Len(s) - 1) : CharAt(s, i) = c}
    IN  IF S = {} THEN -1 ELSE SetMax(S)

\* String.prototype.trim
Trim(s) ==
    LET N == {i \in 0..(Len(s) - 1) : ~IsWhitespace(CharAt(s, i))}
    IN  IF N = {} THEN "" ELSE SubSeq(s, SetMin(N) + 1, SetMax(N) + 1)

RECURSIVE Repeat(_, _)
Repeat(s, n) == IF n = 0 THEN "" ELSE s \o Repeat(s, n - 1)

RECURSIVE StringsOfLen(_)
StringsOfLen(n) ==
    IF n = 0 THEN {""}
    ELSE {s \o c : s \in StringsOfLen(n - 1), c \in Alphabet}

Contents == UNION {StringsOfLen(n) : n \in 0..MaxLen}

\* 2500 characters of prose without any break character
ProseContent == Repeat(Repeat("a", 50), 50)

-----------------------------------------------------------------------------
(* DocumentChunkingService.chunkDocument *)

\* `!document.content`
NoContent == ~contentPresent \/ content = ""

\* Math.min(startIndex + this.chunkSize, content.length)
EndIndex(start) == Min2(start + chunkSize, Len(content))

BreakPoint(start) ==
    LET e == EndIndex(start)
    IN  Max2(LastIndexOf(content, ".", e),
             Max2(LastIndexOf(content, "\n", e), LastIndexOf(content, " ", e)))

\* breakPoint > startIndex + this.chunkSize * 0.5, without fractions
PastMidpoint(bp, start) == 2 * bp > 2 * start + chunkSize

ActualEndIndex(start) ==
    LET e == EndIndex(start)
    IN  IF e < Len(content) /\ PastMidpoint(BreakPoint(start), start)
        THEN BreakPoint(start) + 1
        ELSE e

ChunkContent(start) == Trim(Substring(content, start, ActualEndIndex(start)))

\* a start advance that steps over the character at actualEndIndex
NextStartIndex_SkipsOne(start) == ActualEndIndex(start) - chunkOverlap + 1

\* startIndex = actualEndIndex - this.chunkOverlap, then the loop guard
NextStartIndex(start) ==
    LET a == ActualEndIndex(start)
        s == a - chunkOverlap
    IN  IF s >= a THEN a ELSE s

MkChunk(start) ==
    [id |-> chunkIndex, content |-> ChunkContent(start),
     startIndex |-> start, endIndex |-> ActualEndIndex(start)]

EnterLoop ==
    /\ startIndex' = 0
    /\ chunkIndex' = 0
    /\ chunks' = <<>>
    /\ windows' = <<>>
    /\ pc' = "loop"

\* a direct call of chunkingService.chunkDocument(document)
ChunkDocumentCall ==
    /\ pc = "idle"
    /\ caller' = "direct"
    /\ IF NoContent
       THEN /\ thrown' = "Error"
            /\ pc' = "threw"
            /\ UNCHANGED <<startIndex, chunkIndex, chunks, windows>>
       ELSE /\ EnterLoop
            /\ UNCHANGED thrown
    /\ UNCHANGED <<content, contentPresent, chunkSize, chunkOverlap, result>>
    /\ UNCHANGED notChunkVars

\* one iteration of the while loop
WindowStep ==
    /\ pc = "loop"
    /\ startIndex < Len(content)
    /\ Len(windows) < MaxWindows
    /\ LET keep == Len(ChunkContent(startIndex)) > 0
       IN  /\ chunks' = IF keep THEN Append(chunks, MkChunk(startIndex)) ELSE chunks
           /\ chunkIndex' = IF keep THEN chunkIndex + 1 ELSE chunkIndex
           /\ windows' = Append(windows, [start |-> startIndex,
                                          end |-> ActualEndIndex(startIndex),
                                          kept |-> keep])
    /\ startIndex' = NextStartIndex(startIndex)
    /\ UNCHANGED <<content, contentPresent, chunkSize, chunkOverlap, pc, caller,
                   thrown, result>>
    /\ UNCHANGED notChunkVars

\* the loop condition fails: return chunks
ChunkDocumentReturn ==
    /\ pc = "loop"
    /\ ~(startIndex < Len(content))
    /\ pc' = IF caller = "direct" THEN "done" ELSE "embedding"
    /\ UNCHANGED <<content, contentPresent, chunkSize, chunkOverlap, startIndex,
                   chunkIndex, chunks, windows, caller, thrown, result>>
    /\ UNCHANGED notChunkVars

-----------------------------------------------------------------------------
(* AIService.processDocument *)

ProcessDocumentCall ==
    /\ pc = "idle"
    /\ caller' = "processDocument"
    /\ IF NoContent
       THEN /\ thrown' = "DocumentProcessingError"
            /\ pc' = "threw"
            /\ UNCHANGED <<startIndex, chunkIndex, chunks, windows>>
       ELSE /\ EnterLoop
            /\ UNCHANGED thrown
    /\ UNCHANGED <<content, contentPresent, chunkSize, chunkOverlap, result>>
    /\ UNCHANGED notChunkVars

\* generateEmbeddings resolves: every chunk gets its embedding
GenerateEmbeddingsOk ==
    /\ pc = "embedding"
    /\ result' = [i \in 1..Len(chunks) |-> [chunk |-> chunks[i], embedded |-> TRUE]]
    /\ pc' = "done"
    /\ UNCHANGED <<content, contentPresent, chunkSize, chunkOverlap, startIndex,
                   chunkIndex, chunks, windows, caller, thrown>>
    /\ UNCHANGED notChunkVars

\* an embedding call fails after its retries: wrapped twice, same error class
GenerateEmbeddingsFail ==
    /\ pc = "embedding"
    /\ Len(chunks) > 0
    /\ thrown' = "DocumentProcessingError"
    /\ pc' = "threw"
    /\ UNCHANGED <<content, contentPresent, chunkSize, chunkOverlap, startIndex,
                   chunkIndex, chunks, windows, caller, result>>
    /\ UNCHANGED notChunkVars

-----------------------------------------------------------------------------
(* Idle values of the variables a specification does not use *)

ChunkIdle ==
    /\ content = ""
    /\ contentPresent = FALSE
    /\ chunkSize = DefaultChunkSize
    /\ chunkOverlap = DefaultChunkOverlap
    /\ startIndex = 0
    /\ chunkIndex = 0
    /\ chunks = <<>>
    /\ windows = <<>>
    /\ pc = "unused"
    /\ caller = "none"
    /\ thrown = "none"
    /\ result = <<>>

MergeIdle ==
    /\ mInput = <<>>
    /\ mInputAtCall = <<>>
    /\ merged = <<>>
    /\ currentChunk = <<>>
    /\ mi = 0
    /\ mpc = "unused"
    /\ mergeLog = <<>>

SimIdle ==
    /\ simForm = "unused"
    /\ simArgs = <<>>
    /\ simResult = <<>>

LifeIdle ==
    /\ docStatus = <<>>
    /\ docContent = <<>>
    /\ upc = <<>>
    /\ docChunks = <<>>
    /\ statusLog = <<>>
    /\ lStore = <<>>
    /\ qpc = "unused"
    /\ qScope = <<>>
    /\ qReturned = <<>>
    /\ qStatusAtSearch = <<>>

TextIdle ==
    /\ tForm = "unused"
    /\ tArg = ""
    /\ tResult = <<>>

RetryIdle ==
    /\ rtImpl = "none"
    /\ rtMaxRetries = 0
    /\ rtOutcomes = <<>>
    /\ rtAttempt = 0
    /\ rtpc = "unused"
    /\ rtInvocations = 0
    /\ rtInFlight = 0
    /\ rtSleeps = <<>>
    /\ rtLastError = <<>>
    /\ rtResult = <<>>

PollIdle ==
    /\ pServerStatus = "none"
    /\ pDocuments = "absent"
    /\ pCaptured = "absent"
    /\ pAttempt = 0
    /\ ppc = "unused"
    /\ pFetched = "none"
    /\ pCompleted = "none"
    /\ pUiState = "none"

EmbedIdle ==
    /\ embCompleted = <<>>
    /\ embeddings = <<>>

SourceIdle ==
    /\ rQuestion = ""
    /\ rContentOf = <<>>
    /\ rSources = <<>>

RankIdle ==
    /\ rStore = <<>>
    /\ rQuery = <<>>
    /\ rEntry = "none"
    /\ rDbFails = FALSE
    /\ rpc = "unused"
    /\ rLimit = 0
    /\ rCandidates = <<>>
    /\ rSearchFailed = FALSE
    /\ rReturned = <<>>
    /\ rThrown = "none"

-----------------------------------------------------------------------------
(* Specification of the chunker *)

Configs == (1..MaxChunkSize) \X (0..MaxOverlap)

ChunkInit ==
    /\ \/ /\ content \in Contents
          /\ contentPresent = TRUE
          /\ \E cfg \in Configs : chunkSize = cfg[1] /\ chunkOverlap = cfg[2]
       \/ /\ content = ""
          /\ contentPresent = FALSE
          /\ \E cfg \in Configs : chunkSize = cfg[1] /\ chunkOverlap = cfg[2]
       \/ /\ content = ProseContent
          /\ contentPresent = TRUE
          /\ chunkSize = DefaultChunkSize
          /\ chunkOverlap = DefaultChunkOverlap
    /\ startIndex = 0
    /\ chunkIndex = 0
    /\ chunks = <<>>
    /\ windows = <<>>
    /\ pc = "idle"
    /\ caller = "none"
    /\ thrown = "none"
    /\ result = <<>>
    /\ MergeIdle
    /\ SimIdle
    /\ RankIdle
    /\ LifeIdle
    /\ TextIdle
    /\ RetryIdle
    /\ PollIdle
    /\ EmbedIdle
    /\ SourceIdle

ChunkNext ==
    \/ ChunkDocumentCall
    \/ WindowStep
    \/ ChunkDocumentReturn
    \/ ProcessDocumentCall
    \/ GenerateEmbeddingsOk
    \/ GenerateEmbeddingsFail

Spec == ChunkInit /\ [][ChunkNext]_vars

-----------------------------------------------------------------------------
(* DocumentChunkingService.mergeSimilarChunks *)

MaxMergeChunks == 3

\* similarity > 0.7, in tenths
MergeThresholdTenths == 7

UpperCaseLetters == "ABCDEFGHIJKLMNOPQRSTUVWXYZ"
LowerCaseLetters == "abcdefghijklmnopqrstuvwxyz"

LowerChar(c) ==
    LET I == {i \in 1..Len(UpperCaseLetters) : CharAt(UpperCaseLetters, i - 1) = c}
    IN  IF I = {} THEN c ELSE CharAt(LowerCaseLetters, SetMin(I) - 1)

\* String.prototype.toLowerCase
RECURSIVE ToLowerCase(_)
ToLowerCase(s) ==
    IF s = "" THEN "" ELSE LowerChar(Head(s)) \o ToLowerCase(Tail(s))

\* String.prototype.split(/\s+/): the pieces between runs of whitespace; a
\* leading or trailing run leaves an empty piece, "" splits into [""]
RECURSIVE SplitScan(_, _, _, _, _)
SplitScan(s, i, cur, acc, inRun) ==
    IF i > Len(s) THEN Append(acc, cur)
    ELSE IF IsWhitespace(CharAt(s, i - 1))
         THEN IF inRun THEN SplitScan(s, i + 1, cur, acc, TRUE)
              ELSE SplitScan(s, i + 1, "", Append(acc, cur), TRUE)
         ELSE SplitScan(s, i + 1, cur \o CharAt(s, i - 1), acc, FALSE)

SplitWhitespace(s) == SplitScan(s, 1, "", <<>>, FALSE)

Range(f) == {f[x] : x \in DOMAIN f}

\* new Set(chunk.content.toLowerCase().split(/\s+/))
WordSet(chunk) == Range(SplitWhitespace(ToLowerCase(chunk.content)))

\* a Jaccard index that divides by the smaller set instead of the union
CalculateChunkSimilarity_BySmallerSet(chunk1, chunk2) ==
    [num |-> Cardinality(WordSet(chunk1) \cap WordSet(chunk2)),
     den |-> Min2(Cardinality(WordSet(chunk1)), Cardinality(WordSet(chunk2)))]

\* intersection.size / union.size, kept as a fraction
CalculateChunkSimilarity(chunk1, chunk2) ==
    [num |-> Cardinality(WordSet(chunk1) \cap WordSet(chunk2)),
     den |-> Cardinality(WordSet(chunk1) \cup WordSet(chunk2))]

\* a threshold test that also merges at exactly 0.7
ExceedsMergeThreshold_Inclusive(sim) == 10 * sim.num >= MergeThresholdTenths * sim.den

\* similarity > 0.7
ExceedsMergeThreshold(sim) == 10 * sim.num > MergeThresholdTenths * sim.den

\* [...new Set([...a, ...b])]: first occurrences, in order
RECURSIVE DedupInto(_, _)
DedupInto(acc, rest) ==
    IF rest = <<>> THEN acc
    ELSE IF \E k \in DOMAIN acc : acc[k] = Head(rest)
         THEN DedupInto(acc, Tail(rest))
         ELSE DedupInto(Append(acc, Head(rest)), Tail(rest))

UnionKeywords(a, b) == DedupInto(<<>>, a \o b)

\* a merge that keeps the earlier chunk's end offset
MergeChunks_KeepsEnd(cur, next) ==
    [cur EXCEPT !.content = cur.content \o " " \o next.content,
                !.metadata.keywords =
                    UnionKeywords(cur.metadata.keywords, next.metadata.keywords)]

\* { ...currentChunk, content, endIndex, metadata: { ...metadata, keywords } }
MergeChunks(cur, next) ==
    [cur EXCEPT !.content = cur.content \o " " \o next.content,
                !.endIndex = next.endIndex,
                !.metadata.keywords =
                    UnionKeywords(cur.metadata.keywords, next.metadata.keywords)]

\* chunk contents as chunkDocument emits them (trimmed, not empty), with keywords
MergePool ==
    << [content |-> "the cat sat on the mat", keywords |-> <<"mat">>],
       [content |-> "the cat sat on the rug", keywords |-> <<"rug">>],
       [content |-> "a b c x", keywords |-> <<"alpha", "beta">>],
       [content |-> "a b c", keywords |-> <<"beta", "alpha", "gamma">>],
       [content |-> "a b c y", keywords |-> <<"gamma", "delta">>],
       [content |-> "A  B\nc", keywords |-> <<>>],
       [content |-> "a b c d e f g h", keywords |-> <<"alpha">>],
       [content |-> "a b c d e f g i j", keywords |-> <<"beta">>] >>

\* the k-th chunk of a document, carrying entry p of the pool
PoolChunk(k, p) ==
    [id |-> k - 1,
     documentId |-> "doc",
     content |-> MergePool[p].content,
     pageNumber |-> k,
     startIndex |-> 20 * (k - 1),
     endIndex |-> 20 * (k - 1) + Len(MergePool[p].content),
     embedding |-> <<k>>,
     metadata |-> [section |-> "General", heading |-> MergePool[p].content,
                   importance |-> 50 + k, keywords |-> MergePool[p].keywords]]

MergeInputs ==
    UNION {{[k \in 1..n |-> PoolChunk(k, f[k])] : f \in [1..n -> DOMAIN MergePool]} :
           n \in 0..MaxMergeChunks}

MergeSimilarChunksCall ==
    /\ mpc = "idle"
    /\ mInputAtCall' = mInput
    /\ IF Len(mInput) <= 1
       THEN /\ merged' = mInput
            /\ mpc' = "done"
            /\ UNCHANGED <<currentChunk, mi>>
       ELSE /\ merged' = <<>>
            /\ currentChunk' = mInput[1]
            /\ mi' = 1
            /\ mpc' = "loop"
    /\ UNCHANGED <<mInput, mergeLog>>
    /\ UNCHANGED notMergeVars

\* one iteration of the for loop
MergeStep ==
    /\ mpc = "loop"
    /\ mi < Len(mInput)
    /\ LET nextChunk == mInput[mi + 1]
           similarity == CalculateChunkSimilarity(currentChunk, nextChunk)
       IN  IF ExceedsMergeThreshold(similarity)
           THEN /\ currentChunk' = MergeChunks(currentChunk, nextChunk)
                /\ mergeLog' = Append(mergeLog,
                                      [a |-> currentChunk, b |-> nextChunk,
                                       out |-> MergeChunks(currentChunk, nextChunk)])
                /\ UNCHANGED merged
           ELSE /\ merged' = Append(merged, currentChunk)
                /\ currentChunk' = nextChunk
                /\ UNCHANGED mergeLog
    /\ mi' = mi + 1
    /\ UNCHANGED <<mInput, mInputAtCall, mpc>>
    /\ UNCHANGED notMergeVars

\* merged.push(currentChunk); return merged
MergeSimilarChunksReturn ==
    /\ mpc = "loop"
    /\ ~(mi < Len(mInput))
    /\ merged' = Append(merged, currentChunk)
    /\ mpc' = "done"
    /\ UNCHANGED <<mInput, mInputAtCall, currentChunk, mi, mergeLog>>
    /\ UNCHANGED notMergeVars

MergeInit ==
    /\ mInput \in MergeInputs
    /\ mInputAtCall = <<>>
    /\ merged = <<>>
    /\ currentChunk = <<>>
    /\ mi = 0
    /\ mpc = "idle"
    /\ mergeLog = <<>>
    /\ ChunkIdle
    /\ SimIdle
    /\ RankIdle
    /\ LifeIdle
    /\ TextIdle
    /\ RetryIdle
    /\ PollIdle
    /\ EmbedIdle
    /\ SourceIdle

MergeNext ==
    \/ MergeSimilarChunksCall
    \/ MergeStep
    \/ MergeSimilarChunksReturn

SpecMerge == MergeInit /\ [][MergeNext]_vars

-----------------------------------------------------------------------------
(* calculateSimilarity (utils.ts) and DatabaseService.calculateCosineSimilarity *)

MaxDim == 2
MaxComponent == 1
MaxStrLen == 3

Min3(a, b, c) == Min2(a, Min2(b, c))

\* a matrix without the substitution step (a changed character costs a
\* deletion and an insertion)
LevenshteinDistance_NoSubstitution(str1, str2) ==
    LET matrix[i \in 0..Len(str2), j \in 0..Len(str1)] ==
            IF i = 0 THEN j
            ELSE IF j = 0 THEN i
            ELSE IF CharAt(str2, i - 1) = CharAt(str1, j - 1)
                 THEN matrix[i - 1, j - 1]
                 ELSE Min2(matrix[i, j - 1] + 1, matrix[i - 1, j] + 1)
    IN  matrix[Len(str2), Len(str1)]

\* the dynamic-programming matrix: matrix[i][j] for the first i characters of
\* str2 and the first j characters of str1
LevenshteinDistance(str1, str2) ==
    LET matrix[i \in 0..Len(str2), j \in 0..Len(str1)] ==
            IF i = 0 THEN j
            ELSE IF j = 0 THEN i
            ELSE IF CharAt(str2, i - 1) = CharAt(str1, j - 1)
                 THEN matrix[i - 1, j - 1]
                 ELSE Min3(matrix[i - 1, j - 1] + 1,
                           matrix[i, j - 1] + 1,
                           matrix[i - 1, j] + 1)
    IN  matrix[Len(str2), Len(str1)]

\* a similarity that divides by the length of the first argument
CalculateSimilarity_ByFirstLength(str1, str2) ==
    LET longer == IF Len(str1) > Len(str2) THEN str1 ELSE str2
        shorter == IF Len(str1) > Len(str2) THEN str2 ELSE str1
    IN  IF Len(longer) = 0 THEN [num |-> 1, den |-> 1]
        ELSE [num |-> Len(str1) - LevenshteinDistance(longer, shorter),
              den |-> Max2(Len(str1), 1)]

\* (longer.length - editDistance) / longer.length, kept as a fraction
CalculateSimilarity(str1, str2) ==
    LET longer == IF Len(str1) > Len(str2) THEN str1 ELSE str2
        shorter == IF Len(str1) > Len(str2) THEN str2 ELSE str1
    IN  IF Len(longer) = 0 THEN [num |-> 1, den |-> 1]
        ELSE [num |-> Len(longer) - LevenshteinDistance(longer, shorter),
              den |-> Len(longer)]

RECURSIVE SumOver(_, _)
SumOver(f, n) == IF n = 0 THEN 0 ELSE f[n] + SumOver(f, n - 1)

DotProduct(a, b) == SumOver([i \in DOMAIN a |-> a[i] * b[i]], Len(a))

\* dotProduct / (sqrt(normA) * sqrt(normB)), kept exactly as the three sums;
\* zero is TRUE where the code returns the literal 0
CalculateCosineSimilarity(vectorA, vectorB) ==
    IF Len(vectorA) # Len(vectorB)
    THEN [zero |-> TRUE, dot |-> 0, normA |-> 0, normB |-> 0]
    ELSE LET dot == DotProduct(vectorA, vectorB)
             nA == DotProduct(vectorA, vectorA)
             nB == DotProduct(vectorB, vectorB)
         IN  [zero |-> (nA = 0 \/ nB = 0), dot |-> dot, normA |-> nA, normB |-> nB]

\* the value of a cosine result compared with 0 and with 1
CosineBelowZero(r) == ~r.zero /\ r.dot < 0
CosineAboveOne(r) == ~r.zero /\ r.dot > 0 /\ r.dot * r.dot > r.normA * r.normB

Vectors ==
    UNION {[1..n -> (-MaxComponent)..MaxComponent] : n \in 0..MaxDim}

SimAlphabet == {"a", "b"}

RECURSIVE SimStringsOfLen(_)
SimStringsOfLen(n) ==
    IF n = 0 THEN {""}
    ELSE {s \o c : s \in SimStringsOfLen(n - 1), c \in SimAlphabet}

SimStrings == UNION {SimStringsOfLen(n) : n \in 0..MaxStrLen}

\* db.calculateCosineSimilarity(vectorA, vectorB) on the arguments drawn by SimInit
CalculateCosineSimilarityCall ==
    /\ simForm = "vectorCall"
    /\ simForm' = "vector"
    /\ simResult' = CalculateCosineSimilarity(simArgs[1], simArgs[2])
    /\ UNCHANGED simArgs
    /\ UNCHANGED notSimVars

\* calculateSimilarity(str1, str2) on the arguments drawn by SimInit
CalculateSimilarityCall ==
    /\ simForm = "lexicalCall"
    /\ simForm' = "lexical"
    /\ simResult' = CalculateSimilarity(simArgs[1], simArgs[2])
    /\ UNCHANGED simArgs
    /\ UNCHANGED notSimVars

SimInit ==
    /\ \/ simForm = "vectorCall" /\ simArgs \in Vectors \X Vectors
       \/ simForm = "lexicalCall" /\ simArgs \in SimStrings \X SimStrings
    /\ simResult = <<>>
    /\ ChunkIdle
    /\ MergeIdle
    /\ RankIdle
    /\ LifeIdle
    /\ TextIdle
    /\ RetryIdle
    /\ PollIdle
    /\ EmbedIdle
    /\ SourceIdle

SimNext ==
    \/ CalculateCosineSimilarityCall
    \/ CalculateSimilarityCall

SpecSim == SimInit /\ [][SimNext]_vars

-----------------------------------------------------------------------------
(* DatabaseService.findSimilarChunks, AIService.findRelevantChunks and       *)
(* AIService.processQuery                                                    *)

MaxStoreLen == 2
MaxK == 2

DefaultLimit == 5
AIConfigMaxResults == 5

DocIds == {"d1", "d2"}

\* an optional value: given = FALSE models undefined (or null for a column)
Absent == [given |-> FALSE, value |-> <<>>]
Given(v) == [given |-> TRUE, value |-> v]

\* the embedding column of a stored chunk: null, or the JSON text of a vector
StoredEmbeddings == {Absent, Given(<<1, 0>>), Given(<<1, 1>>), Given(<<1>>)}

StoredRows == [documentId : DocIds, embedding : StoredEmbeddings]

\* the table with n rows; the id of a row is its place in findMany's order
StoresOfLen(n) ==
    {[i \in 1..n |-> [id |-> i, documentId |-> f[i].documentId,
                      embedding |-> f[i].embedding]] : f \in [1..n -> StoredRows]}

RankStores == UNION {StoresOfLen(n) : n \in 0..MaxStoreLen}

\* a table with more rows than the default limit
LargeStore ==
    [i \in 1..(DefaultLimit + 1) |->
        [id |-> i, documentId |-> "d1", embedding |-> Given(<<1, 0>>)]]

\* a table with chunks of both documents, a chunk without embedding, tied
\* scores and a lower score listed first
MixedStore ==
    <<[id |-> 1, documentId |-> "d1", embedding |-> Given(<<1, 1>>)],
      [id |-> 2, documentId |-> "d1", embedding |-> Absent],
      [id |-> 3, documentId |-> "d2", embedding |-> Given(<<1, 0>>)],
      [id |-> 4, documentId |-> "d1", embedding |-> Given(<<1, 0>>)],
      [id |-> 5, documentId |-> "d1", embedding |-> Given(<<1, 0>>)]>>

RankQueries ==
    [embedding : {<<1, 0>>, <<1>>},
     documentIds : {Absent, Given(<<>>), Given(<<"d1">>), Given(<<"d2">>)},
     k : {Absent} \cup {Given(n) : n \in 0..MaxK}]

\* the where clause: embedding not null, and documentId in documentIds when
\* documentIds is given and not empty
MatchesWhereClause_IgnoresScope(row, documentIds) ==
    row.embedding.given

MatchesWhereClause(row, documentIds) ==
    /\ row.embedding.given
    /\ (documentIds.given /\ Len(documentIds.value) > 0)
           => row.documentId \in Range(documentIds.value)

FindMany(store, documentIds) ==
    SelectSeq(store, LAMBDA row : MatchesWhereClause(row, documentIds))

\* the value of a cosine result as a signed fraction num / sqrt(den2)
CosineNum(r) == IF r.zero THEN 0 ELSE r.dot
CosineDen2(r) == IF r.zero THEN 1 ELSE r.normA * r.normB

\* r < s as numbers
CosineLess(r, s) ==
    LET a == CosineNum(r)
        b == CosineNum(s)
        P == CosineDen2(r)
        Q == CosineDen2(s)
    IN  IF a < 0 /\ b >= 0 THEN TRUE
        ELSE IF a >= 0 /\ b < 0 THEN FALSE
        ELSE IF a >= 0 THEN a * a * Q < b * b * P
        ELSE a * a * Q > b * b * P

\* chunks.map(chunk => ({...chunk, similarity}))
WithSimilarity(queryEmbedding, rows) ==
    [i \in 1..Len(rows) |->
        [id |-> rows[i].id, documentId |-> rows[i].documentId,
         similarity |-> CalculateCosineSimilarity(queryEmbedding,
                                                  rows[i].embedding.value)]]

\* an insertion that puts x before the elements it ties with
RECURSIVE InsertBySimilarity_BeforeTies(_, _)
InsertBySimilarity_BeforeTies(sorted, x) ==
    IF sorted = <<>> THEN <<x>>
    ELSE IF ~CosineLess(x.similarity, Head(sorted).similarity)
         THEN <<x>> \o sorted
         ELSE <<Head(sorted)>> \o InsertBySimilarity_BeforeTies(Tail(sorted), x)

\* Array.prototype.sort((a, b) => b.similarity - a.similarity) is stable: x goes
\* before the first element whose similarity is lower than its own
RECURSIVE InsertBySimilarity(_, _)
InsertBySimilarity(sorted, x) ==
    IF sorted = <<>> THEN <<x>>
    ELSE IF CosineLess(Head(sorted).similarity, x.similarity)
         THEN <<x>> \o sorted
         ELSE <<Head(sorted)>> \o InsertBySimilarity(Tail(sorted), x)

RECURSIVE SortInto(_, _)
SortInto(sorted, rest) ==
    IF rest = <<>> THEN sorted
    ELSE SortInto(InsertBySimilarity(sorted, Head(rest)), Tail(rest))

SortBySimilarityDesc(seq) == SortInto(<<>>, seq)

\* Array.prototype.slice(0, limit)
Slice(seq, limit) ==
    IF limit < 0 THEN SubSeq(seq, 1, Max2(Len(seq) + limit, 0))
    ELSE SubSeq(seq, 1, Min2(limit, Len(seq)))

\* .map(({ similarity, ...chunk }) => chunk)
DropSimilarity(seq) ==
    [i \in 1..Len(seq) |-> [id |-> seq[i].id, documentId |-> seq[i].documentId]]

ChunksWithSimilarity(store, queryEmbedding, documentIds) ==
    WithSimilarity(queryEmbedding, FindMany(store, documentIds))

\* what findSimilarChunks returns when findMany resolves
FindSimilarChunks(store, queryEmbedding, documentIds, limit) ==
    DropSimilarity(Slice(SortBySimilarityDesc(
        ChunksWithSimilarity(store, queryEmbedding, documentIds)), limit))

\* request.maxResults || AI_CONFIG.maxResults: undefined and 0 are falsy
MaxResultsOrDefault(k) ==
    IF ~k.given \/ k.value = 0 THEN AIConfigMaxResults ELSE k.value

\* the default of the limit parameter applies to undefined only
LimitOrDefault(k) == IF k.given THEN k.value ELSE DefaultLimit

\* a direct call db.findSimilarChunks(embedding, documentIds, k)
FindSimilarChunksCall ==
    /\ rpc = "findSimilarChunks"
    /\ rLimit' = LimitOrDefault(rQuery.k)
    /\ IF rDbFails
       THEN /\ rSearchFailed' = TRUE
            /\ rThrown' = "Error"
            /\ rpc' = "threw"
            /\ UNCHANGED <<rCandidates, rReturned>>
       ELSE /\ rCandidates' = ChunksWithSimilarity(rStore, rQuery.embedding,
                                                   rQuery.documentIds)
            /\ rReturned' = FindSimilarChunks(rStore, rQuery.embedding,
                                              rQuery.documentIds, rLimit')
            /\ rpc' = "returned"
            /\ UNCHANGED <<rSearchFailed, rThrown>>
    /\ UNCHANGED <<rStore, rQuery, rEntry, rDbFails>>
    /\ UNCHANGED notRankVars

\* processQuery up to the query embedding: embedQuery resolves, or rejects after
\* its retries and the catch throws AIQueryError
ProcessQueryCall ==
    /\ rpc = "processQuery"
    /\ \E embedded \in BOOLEAN :
          IF embedded
          THEN rpc' = "findRelevantChunks" /\ UNCHANGED rThrown
          ELSE rpc' = "threw" /\ rThrown' = "AIQueryError"
    /\ UNCHANGED <<rStore, rQuery, rEntry, rDbFails, rLimit, rCandidates,
                   rSearchFailed, rReturned>>
    /\ UNCHANGED notRankVars

\* findRelevantChunks(queryEmbedding, documentIds, maxResults || 5): the result of
\* db.findSimilarChunks, or [] when it throws
FindRelevantChunksCall ==
    /\ rpc = "findRelevantChunks"
    /\ rLimit' = MaxResultsOrDefault(rQuery.k)
    /\ IF rDbFails
       THEN /\ rSearchFailed' = TRUE
            /\ rReturned' = <<>>
            /\ UNCHANGED rCandidates
       ELSE /\ rCandidates' = ChunksWithSimilarity(rStore, rQuery.embedding,
                                                   rQuery.documentIds)
            /\ rReturned' = FindSimilarChunks(rStore, rQuery.embedding,
                                              rQuery.documentIds, rLimit')
            /\ UNCHANGED rSearchFailed
    /\ rpc' = "generateResponse"
    /\ UNCHANGED <<rStore, rQuery, rEntry, rDbFails, rThrown>>
    /\ UNCHANGED notRankVars

\* calculateSimilarity(query.toLowerCase(), content.toLowerCase())
CalculateRelevanceScore(query, chunkContent) ==
    CalculateSimilarity(ToLowerCase(query), ToLowerCase(chunkContent))

\* relevantChunks.map(chunk => ({chunkId, content, relevanceScore, ...}))
SourcesOf(question, relevantChunks) ==
    [k \in DOMAIN relevantChunks |->
        [chunkId |-> relevantChunks[k].id,
         documentId |-> relevantChunks[k].documentId,
         relevanceScore |->
             CalculateRelevanceScore(question, rContentOf[relevantChunks[k].id])]]

\* generateResponse resolves and processQuery returns the answer with the
\* relevant chunks as sources, or it rejects and the catch throws AIQueryError
GenerateResponse ==
    /\ rpc = "generateResponse"
    /\ \E generated \in BOOLEAN :
          IF generated
          THEN /\ rpc' = "returned"
               /\ rSources' = SourcesOf(rQuestion, rReturned)
               /\ UNCHANGED rThrown
          ELSE /\ rpc' = "threw"
               /\ rThrown' = "AIQueryError"
               /\ UNCHANGED rSources
    /\ UNCHANGED <<rStore, rQuery, rEntry, rDbFails, rLimit, rCandidates,
                   rSearchFailed, rReturned>>
    /\ UNCHANGED <<notRankSourceVars, rQuestion, rContentOf>>

RankInit ==
    /\ rStore \in RankStores \cup {LargeStore, MixedStore}
    /\ rQuery \in RankQueries
    /\ rEntry \in {"findSimilarChunks", "processQuery"}
    /\ rDbFails \in BOOLEAN
    /\ rpc = rEntry
    /\ rLimit = 0
    /\ rCandidates = <<>>
    /\ rSearchFailed = FALSE
    /\ rReturned = <<>>
    /\ rThrown = "none"
    /\ ChunkIdle
    /\ MergeIdle
    /\ SimIdle
    /\ LifeIdle
    /\ TextIdle
    /\ RetryIdle
    /\ PollIdle
    /\ EmbedIdle
    /\ rQuestion = "ab"
    /\ rContentOf = [i \in DOMAIN rStore |-> "ab"]
    /\ rSources = <<>>

RankNext ==
    \/ FindSimilarChunksCall
    \/ ProcessQueryCall
    \/ FindRelevantChunksCall
    \/ GenerateResponse

SpecRank == RankInit /\ [][RankNext]_vars

-----------------------------------------------------------------------------
(* POST /api/upload with processDocumentAsync, and POST /api/query           *)

MaxLifeChunks == 2

\* the configuration of the chunking service: the exported singleton's
\* defaults, and services constructed without overlap
LifeConfigs ==
    {<<DefaultChunkSize, DefaultChunkOverlap>>, <<DefaultChunkSize, 0>>, <<1, 0>>}

\* the text extracted from an uploaded file
LifeContents == {"", "a", "ab"}

\* the embedding the embedding model returns, for chunks and for questions
ModelEmbedding == <<1, 0>>

QueryScopes ==
    {Absent, Given(<<"d1">>), Given(<<"d2">>), Given(<<"d1", "d2">>)}

\* prisma.document.update({where: {id}, data: {status}})
UpdateDocumentStatus(d, status) ==
    /\ docStatus' = [docStatus EXCEPT ![d] = status]
    /\ statusLog' = [statusLog EXCEPT ![d] = Append(@, status)]

\* embeddingModel.embedQuery(chunk.content) for the chunk of index i: the
\* vector tells which chunk it was computed for
EmbedQuery(i) == <<1, i - 1>>

\* the embedding calls that have settled when Promise.all settles: all of
\* them in their order of completion, or those up to the first that failed
SettledCalls(order, failing) ==
    IF failing = 0
    THEN [k \in 1..Len(order) |-> [chunk |-> order[k], ok |-> TRUE]]
    ELSE [k \in 1..failing |-> [chunk |-> order[k], ok |-> k < failing]]

\* a result array filled in the order the calls completed
ResolvedEmbeddings_InCompletionOrder(order) ==
    [k \in 1..Len(order) |-> EmbedQuery(order[k])]

\* what Promise.all resolves with: the results in the order of the promises,
\* whatever the order of completion
ResolvedEmbeddings(order) == [i \in 1..Len(order) |-> EmbedQuery(i)]

\* the rows createMany inserts for a document with n chunks: chunk i with
\* embeddings[i]
NewRows(d, n) ==
    [i \in 1..n |-> [id |-> <<d, i>>, documentId |-> d,
                     embedding |-> Given(embeddings[d][i])]]

\* no chunkDocument call is inside its loop
ChunkerFree == \A d \in DocIds : upc[d] # "chunking"

\* when the .catch handler attached to processDocumentAsync(documentId) runs: a
\* handler that runs after every settlement, and the one of the code
OuterCatchRuns_OnSettle(d) == upc[d] \in {"outerCatch", "done"}

OuterCatchRuns(d) == upc[d] = "outerCatch"

\* POST /api/upload up to db.createDocument: the row is created as uploading,
\* or the insert rejects and the request answers 500
CreateDocument(d) ==
    /\ upc[d] = "start"
    /\ \E ok \in BOOLEAN :
          IF ok
          THEN /\ UpdateDocumentStatus(d, "uploading")
               /\ upc' = [upc EXCEPT ![d] = "created"]
          ELSE /\ upc' = [upc EXCEPT ![d] = "failed"]
               /\ UNCHANGED <<docStatus, statusLog>>
    /\ UNCHANGED <<docContent, docChunks, lStore, qpc, qScope, qReturned,
                   qStatusAtSearch>>
    /\ UNCHANGED <<content, contentPresent, chunkSize, chunkOverlap, startIndex,
                   chunkIndex>>
    /\ UNCHANGED notLifeVars

\* await db.updateDocumentStatus(documentId, 'processing'), then
\* processDocumentAsync is started and the request answers; when the update
\* rejects the request answers 500 and nothing is started
MarkProcessing(d) ==
    /\ upc[d] = "created"
    /\ \E ok \in BOOLEAN :
          IF ok
          THEN /\ UpdateDocumentStatus(d, "processing")
               /\ upc' = [upc EXCEPT ![d] = "async"]
          ELSE /\ upc' = [upc EXCEPT ![d] = "failed"]
               /\ UNCHANGED <<docStatus, statusLog>>
    /\ UNCHANGED <<docContent, docChunks, lStore, qpc, qScope, qReturned,
                   qStatusAtSearch>>
    /\ UNCHANGED <<content, contentPresent, chunkSize, chunkOverlap, startIndex,
                   chunkIndex>>
    /\ UNCHANGED notLifeVars

\* processDocumentAsync: getDocument, then aiService.processDocument, which
\* throws on missing content and otherwise enters chunkDocument's loop
ProcessDocumentAsyncStart(d) ==
    /\ upc[d] = "async"
    /\ \E found \in BOOLEAN :
          IF ~found \/ docContent[d] = ""
          THEN /\ upc' = [upc EXCEPT ![d] = "catch"]
               /\ UNCHANGED <<content, contentPresent, startIndex, chunkIndex>>
          ELSE /\ ChunkerFree
               /\ content' = docContent[d]
               /\ contentPresent' = TRUE
               /\ startIndex' = 0
               /\ chunkIndex' = 0
               /\ upc' = [upc EXCEPT ![d] = "chunking"]
    /\ UNCHANGED <<docStatus, docContent, docChunks, statusLog, lStore, qpc,
                   qScope, qReturned, qStatusAtSearch>>
    /\ UNCHANGED <<chunkSize, chunkOverlap>>
    /\ UNCHANGED notLifeVars

\* one iteration of chunkDocument's loop; the chunks emitted are counted
\* modulo MaxLifeChunks + 1 (no call that returns emits more than MaxLifeChunks
\* on these contents)
LifeWindowStep(d) ==
    /\ upc[d] = "chunking"
    /\ startIndex < Len(content)
    /\ chunkIndex' = IF Len(ChunkContent(startIndex)) > 0
                     THEN (chunkIndex + 1) % (MaxLifeChunks + 1)
                     ELSE chunkIndex
    /\ startIndex' = NextStartIndex(startIndex)
    /\ UNCHANGED lifeVars
    /\ UNCHANGED <<content, contentPresent, chunkSize, chunkOverlap>>
    /\ UNCHANGED notLifeVars

\* the loop condition fails: chunkDocument returns its chunks
LifeChunkReturn(d) ==
    /\ upc[d] = "chunking"
    /\ ~(startIndex < Len(content))
    /\ docChunks' = [docChunks EXCEPT ![d] = chunkIndex]
    /\ upc' = [upc EXCEPT ![d] = "embedding"]
    /\ UNCHANGED <<docStatus, docContent, statusLog, lStore, qpc, qScope,
                   qReturned, qStatusAtSearch>>
    /\ UNCHANGED <<content, contentPresent, chunkSize, chunkOverlap, startIndex,
                   chunkIndex>>
    /\ UNCHANGED notLifeVars

\* generateEmbeddings: the calls of all chunks run at once and complete in any
\* order; every chunk gets its embedding, or a call fails after its retries
\* and processDocument throws
LifeGenerateEmbeddings(d) ==
    /\ upc[d] = "embedding"
    /\ \E order \in Permutations(1..docChunks[d]), failing \in 0..docChunks[d] :
          /\ embCompleted' = [embCompleted EXCEPT ![d] = SettledCalls(order, failing)]
          /\ IF failing = 0
             THEN /\ embeddings' = [embeddings EXCEPT ![d] = ResolvedEmbeddings(order)]
                  /\ upc' = [upc EXCEPT ![d] = "storing"]
             ELSE /\ upc' = [upc EXCEPT ![d] = "catch"]
                  /\ UNCHANGED embeddings
    /\ UNCHANGED <<docStatus, docContent, docChunks, statusLog, lStore, qpc,
                   qScope, qReturned, qStatusAtSearch>>
    /\ UNCHANGED <<content, contentPresent, chunkSize, chunkOverlap, startIndex,
                   chunkIndex>>
    /\ UNCHANGED notLifeEmbedVars

\* await db.createDocumentChunks(documentId, chunks)
CreateDocumentChunks(d) ==
    /\ upc[d] = "storing"
    /\ \E ok \in BOOLEAN :
          IF ok
          THEN /\ lStore' = NewRows(d, docChunks[d]) \o lStore
               /\ upc' = [upc EXCEPT ![d] = "marking"]
          ELSE /\ upc' = [upc EXCEPT ![d] = "catch"]
               /\ UNCHANGED lStore
    /\ UNCHANGED <<docStatus, docContent, docChunks, statusLog, qpc, qScope,
                   qReturned, qStatusAtSearch>>
    /\ UNCHANGED <<content, contentPresent, chunkSize, chunkOverlap, startIndex,
                   chunkIndex>>
    /\ UNCHANGED notLifeVars

\* await db.updateDocumentStatus(documentId, 'processed')
MarkProcessed(d) ==
    /\ upc[d] = "marking"
    /\ \E ok \in BOOLEAN :
          IF ok
          THEN /\ UpdateDocumentStatus(d, "processed")
               /\ upc' = [upc EXCEPT ![d] = "done"]
          ELSE /\ upc' = [upc EXCEPT ![d] = "catch"]
               /\ UNCHANGED <<docStatus, statusLog>>
    /\ UNCHANGED <<docContent, docChunks, lStore, qpc, qScope, qReturned,
                   qStatusAtSearch>>
    /\ UNCHANGED <<content, contentPresent, chunkSize, chunkOverlap, startIndex,
                   chunkIndex>>
    /\ UNCHANGED notLifeVars

\* the catch of processDocumentAsync: await db.updateDocumentStatus(documentId,
\* 'error'); when that rejects, processDocumentAsync rejects
CatchMarkError(d) ==
    /\ upc[d] = "catch"
    /\ \E ok \in BOOLEAN :
          IF ok
          THEN /\ UpdateDocumentStatus(d, "error")
               /\ upc' = [upc EXCEPT ![d] = "done"]
          ELSE /\ upc' = [upc EXCEPT ![d] = "outerCatch"]
               /\ UNCHANGED <<docStatus, statusLog>>
    /\ UNCHANGED <<docContent, docChunks, lStore, qpc, qScope, qReturned,
                   qStatusAtSearch>>
    /\ UNCHANGED <<content, contentPresent, chunkSize, chunkOverlap, startIndex,
                   chunkIndex>>
    /\ UNCHANGED notLifeVars

\* the .catch of the upload handler: db.updateDocumentStatus(documentId,
\* 'error'), not awaited; when it rejects too nobody handles it
OuterCatchMarkError(d) ==
    /\ OuterCatchRuns(d)
    /\ \E ok \in BOOLEAN :
          IF ok
          THEN /\ UpdateDocumentStatus(d, "error")
               /\ upc' = [upc EXCEPT ![d] = "settled"]
          ELSE /\ upc' = [upc EXCEPT ![d] = "abandoned"]
               /\ UNCHANGED <<docStatus, statusLog>>
    /\ UNCHANGED <<docContent, docChunks, lStore, qpc, qScope, qReturned,
                   qStatusAtSearch>>
    /\ UNCHANGED <<content, contentPresent, chunkSize, chunkOverlap, startIndex,
                   chunkIndex>>
    /\ UNCHANGED notLifeVars

\* the documents of a scope that have a row with this status
DocsWithStatus(scope, status) ==
    {d \in DocIds : /\ docStatus[d] = status
                    /\ scope.given => d \in Range(scope.value)}

\* POST /api/query up to the check for processed documents: 400 when none of
\* the requested documents (of all documents, without documentIds) is processed
QueryRouteCheck ==
    /\ qpc = "idle"
    /\ \E scope \in QueryScopes :
          /\ qScope' = scope
          /\ qpc' = IF DocsWithStatus(scope, "processed") = {}
                    THEN "rejected" ELSE "checked"
    /\ UNCHANGED <<docStatus, docContent, upc, docChunks, statusLog, lStore,
                   qReturned, qStatusAtSearch>>
    /\ UNCHANGED <<content, contentPresent, chunkSize, chunkOverlap, startIndex,
                   chunkIndex>>
    /\ UNCHANGED notLifeVars

\* processQuery up to findRelevantChunks: the question is embedded (or the
\* embedding rejects and the request fails), then the similarity search reads
\* the table (or rejects and [] is used)
QuerySearch ==
    /\ qpc = "checked"
    /\ \E embedded \in BOOLEAN, searched \in BOOLEAN :
          IF ~embedded
          THEN /\ qpc' = "failed"
               /\ UNCHANGED <<qReturned, qStatusAtSearch>>
          ELSE /\ qpc' = "searched"
               /\ qStatusAtSearch' = docStatus
               /\ qReturned' = IF searched
                               THEN FindSimilarChunks(lStore, ModelEmbedding, qScope,
                                        MaxResultsOrDefault(Given(AIConfigMaxResults)))
                               ELSE <<>>
    /\ UNCHANGED <<docStatus, docContent, upc, docChunks, statusLog, lStore,
                   qScope>>
    /\ UNCHANGED <<content, contentPresent, chunkSize, chunkOverlap, startIndex,
                   chunkIndex>>
    /\ UNCHANGED notLifeVars

\* generateResponse resolves and the answer cites the relevant chunks as
\* sources, or it rejects and the request fails
QueryAnswer ==
    /\ qpc = "searched"
    /\ \E generated \in BOOLEAN :
          qpc' = IF generated THEN "answered" ELSE "failed"
    /\ UNCHANGED <<docStatus, docContent, upc, docChunks, statusLog, lStore,
                   qScope, qReturned, qStatusAtSearch>>
    /\ UNCHANGED <<content, contentPresent, chunkSize, chunkOverlap, startIndex,
                   chunkIndex>>
    /\ UNCHANGED notLifeVars

LifeInit ==
    /\ docStatus = [d \in DocIds |-> "none"]
    /\ docContent \in [DocIds -> LifeContents]
    /\ upc = [d \in DocIds |-> "start"]
    /\ docChunks = [d \in DocIds |-> 0]
    /\ statusLog = [d \in DocIds |-> <<>>]
    /\ lStore = <<>>
    /\ qpc = "idle"
    /\ qScope = Absent
    /\ qReturned = <<>>
    /\ qStatusAtSearch = [d \in DocIds |-> "none"]
    /\ \E cfg \in LifeConfigs : chunkSize = cfg[1] /\ chunkOverlap = cfg[2]
    /\ content = ""
    /\ contentPresent = FALSE
    /\ startIndex = 0
    /\ chunkIndex = 0
    /\ chunks = <<>>
    /\ windows = <<>>
    /\ pc = "unused"
    /\ caller = "none"
    /\ thrown = "none"
    /\ result = <<>>
    /\ MergeIdle
    /\ SimIdle
    /\ RankIdle
    /\ TextIdle
    /\ RetryIdle
    /\ PollIdle
    /\ embCompleted = [d \in DocIds |-> <<>>]
    /\ embeddings = [d \in DocIds |-> <<>>]
    /\ SourceIdle

\* the upload request of document d and its processDocumentAsync
UploadNext(d) ==
    \/ CreateDocument(d)
    \/ MarkProcessing(d)
    \/ ProcessDocumentAsyncStart(d)
    \/ LifeWindowStep(d)
    \/ LifeChunkReturn(d)
    \/ LifeGenerateEmbeddings(d)
    \/ CreateDocumentChunks(d)
    \/ MarkProcessed(d)
    \/ CatchMarkError(d)
    \/ OuterCatchMarkError(d)

QueryNext ==
    \/ QueryRouteCheck
    \/ QuerySearch
    \/ QueryAnswer

LifeNext ==
    \/ \E d \in DocIds : UploadNext(d)
    \/ QueryNext

SpecLife == LifeInit /\ [][LifeNext]_vars

\* every request that can take a step eventually takes one
LifeFairness ==
    /\ \A d \in DocIds : WF_vars(UploadNext(d))
    /\ WF_vars(QueryNext)

SpecLifeFair == LifeInit /\ [][LifeNext]_vars /\ LifeFairness

-----------------------------------------------------------------------------
(* Properties of chunkDocument *)

IsWindowLoopState == pc = "loop"

\* some window walked so far ended at the end of the content
EndReached == \E w \in DOMAIN windows : windows[w].end >= Len(content)

\* C1: the window loop terminates: every window starts strictly after the
\* previous one, and once a window has reached the end of the content the
\* loop condition fails, so that the call returns.
C1_LoopTerminates ==
    /\ \A w \in 1..(Len(windows) - 1) : windows[w + 1].start > windows[w].start
    /\ (IsWindowLoopState /\ EndReached) => ~(startIndex < Len(content))

\* C2: every emitted chunk has 0 <= startIndex < endIndex <= len(content).
C2_ChunkBounds ==
    \A k \in DOMAIN chunks :
        /\ 0 <= chunks[k].startIndex
        /\ chunks[k].startIndex < chunks[k].endIndex
        /\ chunks[k].endIndex <= Len(content)

\* C3: in output order both startIndex and endIndex strictly increase, and
\* consecutive chunks overlap by at most chunkOverlap characters.
C3_StrictlyIncreasing ==
    \A k \in 1..(Len(chunks) - 1) :
        /\ chunks[k + 1].startIndex > chunks[k].startIndex
        /\ chunks[k + 1].endIndex > chunks[k].endIndex
        /\ chunks[k].endIndex - chunks[k + 1].startIndex <= chunkOverlap

Uncovered(i) ==
    ~\E k \in DOMAIN chunks : chunks[k].startIndex <= i /\ i < chunks[k].endIndex

InDiscardedWindow(i) ==
    \E w \in DOMAIN windows :
        ~windows[w].kept /\ windows[w].start <= i /\ i < windows[w].end

OnlyDiscardedWhitespaceUncovered ==
    \A i \in 0..(Len(content) - 1) :
        Uncovered(i) => IsWhitespace(CharAt(content, i)) /\ InDiscardedWindow(i)

Returned == pc \in {"done", "embedding"} \/ (pc = "threw" /\ windows # <<>>)

\* C4 as stated: the ranges of the returned chunks chain without gaps from
\* the start to len(content): the last chunk's range ends at len(content) and
\* each next chunk's range starts at or before the end of the previous one.
C4_ChunkRangesCover ==
    (Returned /\ chunks # <<>>) =>
        /\ chunks[Len(chunks)].endIndex = Len(content)
        /\ \A k \in 1..(Len(chunks) - 1) :
               chunks[k + 1].startIndex <= chunks[k].endIndex
        /\ OnlyDiscardedWhitespaceUncovered

\* C4 amended: the windows walked by the loop chain without gaps: the first
\* window starts at 0, each next window starts at or before the end of the
\* previous one, the last window of a returning call ends at len(content), and
\* once a window has reached the end of the content the only characters in no
\* emitted chunk's range are whitespace of a discarded window.
C4_WindowsCover ==
    windows # <<>> =>
        /\ windows[1].start = 0
        /\ \A w \in 1..(Len(windows) - 1) : windows[w + 1].start <= windows[w].end
        /\ Returned => windows[Len(windows)].end = Len(content)
        /\ EndReached => OnlyDiscardedWhitespaceUncovered

\* a returned result with a discarded window between or after emitted chunks
C4_Witness ==
    /\ pc = "done"
    /\ Len(chunks) >= 2
    /\ \E i \in 0..(Len(content) - 1) : Uncovered(i)
    /\ chunks[Len(chunks)].endIndex < Len(content)

IsProseScenario ==
    /\ content = ProseContent
    /\ chunkSize = DefaultChunkSize
    /\ chunkOverlap = DefaultChunkOverlap

\* C5: for 2500 characters without break characters, chunkSize 1000 and
\* overlap 200, exactly the three chunks starting at 0, 800 and 1600 are
\* emitted.
C5_ThreeChunks ==
    IsProseScenario =>
        /\ Len(chunks) <= 3
        /\ \A k \in DOMAIN chunks : chunks[k].startIndex = 800 * (k - 1)
        /\ Returned => Len(chunks) = 3

\* C6: a call on missing or empty content fails with a MissingContentError,
\* a kind of its own, and emits no chunk, for chunkDocument and for the caller
\* of processDocument alike.
C6_MissingContentError ==
    (pc = "threw" /\ NoContent) =>
        /\ thrown = "MissingContentError"
        /\ chunks = <<>>

-----------------------------------------------------------------------------
(* Properties of mergeSimilarChunks *)

\* the words of a text: its maximal runs of non-whitespace characters, lowercased
WordsOf(text) ==
    LET l == ToLowerCase(text)
        IsWord(i, j) ==
            /\ \A k \in i..j : ~IsWhitespace(CharAt(l, k - 1))
            /\ (i = 1 \/ IsWhitespace(CharAt(l, i - 2)))
            /\ (j = Len(l) \/ IsWhitespace(CharAt(l, j)))
    IN  {SubSeq(l, i, j) : <<i, j>> \in {p \in (1..Len(l)) \X (1..Len(l)) :
                                            p[1] <= p[2] /\ IsWord(p[1], p[2])}}

JaccardAboveSevenTenths(a, b) ==
    10 * Cardinality(WordsOf(a.content) \cap WordsOf(b.content))
        > 7 * Cardinality(WordsOf(a.content) \cup WordsOf(b.content))

KeywordSet(chunk) == Range(chunk.metadata.keywords)

\* the merge of an earlier chunk a with a later chunk b, field by field
IsMergeOf(out, a, b) ==
    /\ out.content = a.content \o " " \o b.content
    /\ out.endIndex = b.endIndex
    /\ KeywordSet(out) = KeywordSet(a) \cup KeywordSet(b)
    /\ Cardinality(KeywordSet(out)) = Len(out.metadata.keywords)
    /\ out.id = a.id
    /\ out.documentId = a.documentId
    /\ out.startIndex = a.startIndex
    /\ out.pageNumber = a.pageNumber
    /\ out.embedding = a.embedding
    /\ out.metadata.section = a.metadata.section
    /\ out.metadata.heading = a.metadata.heading
    /\ out.metadata.importance = a.metadata.importance
    /\ DOMAIN out = DOMAIN a
    /\ DOMAIN out.metadata = DOMAIN a.metadata

\* the chunk that merging an earlier chunk a with a later chunk b yields
MergedChunk(a, b) ==
    LET NotInA(w) == w \notin KeywordSet(a)
    IN  [id |-> a.id,
         documentId |-> a.documentId,
         content |-> a.content \o " " \o b.content,
         pageNumber |-> a.pageNumber,
         startIndex |-> a.startIndex,
         endIndex |-> b.endIndex,
         embedding |-> a.embedding,
         metadata |-> [section |-> a.metadata.section,
                       heading |-> a.metadata.heading,
                       importance |-> a.metadata.importance,
                       keywords |-> a.metadata.keywords
                                        \o SelectSeq(b.metadata.keywords, NotInA)]]

\* the greedy left-to-right pass: cur is the current chunk, rest what follows
RECURSIVE GreedyFrom(_, _)
GreedyFrom(cur, rest) ==
    IF rest = <<>> THEN <<cur>>
    ELSE IF JaccardAboveSevenTenths(cur, Head(rest))
         THEN GreedyFrom(MergedChunk(cur, Head(rest)), Tail(rest))
         ELSE <<cur>> \o GreedyFrom(Head(rest), Tail(rest))

GreedyReference(input) ==
    IF Len(input) <= 1 THEN input ELSE GreedyFrom(input[1], Tail(input))

\* C7: the result of mergeSimilarChunks is the result of the greedy
\* left-to-right pass: the current chunk absorbs the next one when their
\* Jaccard similarity is strictly above 0.7 and is then the one compared with
\* what follows, otherwise it is emitted; inputs of length <= 1 come back as is.
C7_GreedyMerge == mpc = "done" => merged = GreedyReference(mInput)

\* the merged current chunk, not the second input chunk, was compared with the third
C7_Witness ==
    /\ mpc = "done"
    /\ Len(mInput) = 3
    /\ Len(mergeLog) = 1
    /\ Len(merged) = 2
    /\ mergeLog[1].a = mInput[1]
    /\ JaccardAboveSevenTenths(mInput[2], mInput[3])

\* C8: a merge of an earlier chunk A with a later chunk B has A's content, a
\* space and B's content, B's endIndex, the duplicate-free union of both
\* keyword lists, and every other field of A; the input chunks stay as they were.
C8_MergeFrame ==
    /\ \A k \in DOMAIN mergeLog :
           IsMergeOf(mergeLog[k].out, mergeLog[k].a, mergeLog[k].b)
    /\ mpc \in {"loop", "done"} => mInput = mInputAtCall

\* two merges in a row, one of them of chunks that share a keyword
C8_Witness ==
    /\ mpc = "done"
    /\ Len(mergeLog) >= 2
    /\ \E k \in DOMAIN mergeLog :
           KeywordSet(mergeLog[k].a) \cap KeywordSet(mergeLog[k].b) # {}

IsCatScenario ==
    /\ Len(mInput) = 2
    /\ mInput[1].content = "the cat sat on the mat"
    /\ mInput[2].content = "the cat sat on the rug"

\* C9 as stated: the similarity of the two cat chunks is 5/7 and
\* mergeSimilarChunks returns one merged chunk.
C9_CatChunksMerge ==
    (IsCatScenario /\ mpc = "done") =>
        LET sim == CalculateChunkSimilarity(mInput[1], mInput[2])
        IN  /\ 7 * sim.num = 5 * sim.den
            /\ Len(merged) = 1

\* C9 amended: the word sets are {the, cat, sat, on, mat} and {the, cat, sat,
\* on, rug}, the similarity is 4/6, which is not above 0.7, and both chunks are
\* returned unmerged.
C9_CatChunksStayApart ==
    (IsCatScenario /\ mpc = "done") =>
        LET sim == CalculateChunkSimilarity(mInput[1], mInput[2])
        IN  /\ sim = [num |-> 4, den |-> 6]
            /\ ~ExceedsMergeThreshold(sim)
            /\ merged = mInput

C9_Witness == IsCatScenario /\ mpc = "done" /\ Len(merged) = 2

-----------------------------------------------------------------------------
(* Properties of the similarity scores *)

\* C10: the score of either form lies in [0,1]: the cosine of two equal-length
\* vectors, negative components included, and the lexical similarity of two
\* strings are never below 0 and never above 1.
C10_ScoreInUnitInterval ==
    /\ simForm = "vector" =>
           ~CosineBelowZero(simResult) /\ ~CosineAboveOne(simResult)
    /\ simForm = "lexical" =>
           0 <= simResult.num /\ simResult.num <= simResult.den /\ simResult.den > 0

\* two cosine results denote the same number
CosineSameValue(r, s) ==
    /\ r.zero = s.zero
    /\ ~r.zero => r.dot = s.dot /\ r.normA * r.normB = s.normA * s.normB

\* two fractions denote the same number
SameFraction(r, s) == r.num * s.den = s.num * r.den

\* C11: similarity is symmetric and a function of its arguments alone: the
\* result of a call on (a, b) is the value the function has on (b, a), for
\* the lexical form (strings of equal and of different lengths) and for the
\* vector form, and it is the value the function has on (a, b) whenever asked.
C11_Symmetric ==
    /\ simForm = "vector" =>
           /\ CosineSameValue(simResult,
                              CalculateCosineSimilarity(simArgs[2], simArgs[1]))
           /\ simResult = CalculateCosineSimilarity(simArgs[1], simArgs[2])
    /\ simForm = "lexical" =>
           /\ SameFraction(simResult, CalculateSimilarity(simArgs[2], simArgs[1]))
           /\ simResult = CalculateSimilarity(simArgs[1], simArgs[2])

\* a lexical call on strings of different lengths with a score strictly
\* between 0 and 1
C11_Witness ==
    /\ simForm = "lexical"
    /\ Len(simArgs[1]) > Len(simArgs[2])
    /\ Len(simArgs[2]) > 0
    /\ 0 < simResult.num /\ simResult.num < simResult.den

\* the strings one insertion, deletion or substitution away from s, no longer
\* than maxLen
OneEdit(s, maxLen) ==
    {SubSeq(s, 1, i - 1) \o SubSeq(s, i + 1, Len(s)) : i \in 1..Len(s)}
    \cup {SubSeq(s, 1, i - 1) \o c \o SubSeq(s, i + 1, Len(s)) :
              i \in 1..Len(s), c \in SimAlphabet}
    \cup (IF Len(s) < maxLen
          THEN {SubSeq(s, 1, i) \o c \o SubSeq(s, i + 1, Len(s)) :
                   i \in 0..Len(s), c \in SimAlphabet}
          ELSE {})

\* the strings at most k single-character edits away from s
RECURSIVE WithinEdits(_, _, _)
WithinEdits(s, k, maxLen) ==
    IF k = 0 THEN {s}
    ELSE LET prev == WithinEdits(s, k - 1, maxLen)
         IN  prev \cup UNION {OneEdit(t, maxLen) : t \in prev}

\* the Levenshtein distance by its definition: the least number of
\* single-character edits that turn a into b (an optimal edit script never
\* needs a string longer than the longer of the two)
TrueEditDistance(a, b) ==
    LET m == Max2(Len(a), Len(b))
    IN  SetMin({k \in 0..m : b \in WithinEdits(a, k, m)})

\* C12: the lexical similarity of a and b is (max(len a, len b) - d) /
\* max(len a, len b) with d the true Levenshtein distance of a and b, which is
\* what levenshteinDistance computes; it is 1 when both strings are empty and
\* 1 for a string and itself.
C12_LexicalFormula ==
    simForm = "lexical" =>
        LET a == simArgs[1]
            b == simArgs[2]
            m == Max2(Len(a), Len(b))
        IN  /\ LevenshteinDistance(a, b) = TrueEditDistance(a, b)
            /\ IF m = 0
               THEN simResult.num = simResult.den
               ELSE simResult.num * m = (m - TrueEditDistance(a, b)) * simResult.den
            /\ simResult.den > 0
            /\ a = b => simResult.num = simResult.den

\* a lexical call whose distance needs a substitution and a length change
C12_Witness ==
    /\ simForm = "lexical"
    /\ simArgs = <<"ab", "bba">>
    /\ simResult = [num |-> 1, den |-> 3]

-----------------------------------------------------------------------------
(* Properties of the ranker *)

\* the k the caller asked for: the given k, 5 when none is given
RequestedK == IF rQuery.k.given THEN rQuery.k.value ELSE 5

\* C13: the number of chunks returned never exceeds the requested k, for every
\* candidate set and every k >= 0 (5 when none is given), whether k is the
\* limit of findSimilarChunks or the maxResults of processQuery.
C13_AtMostK == rpc = "returned" => Len(rReturned) <= RequestedK

\* the query names documents
Scoped == rQuery.documentIds.given /\ Len(rQuery.documentIds.value) > 0

\* the rows (by id) the query may rank: with an embedding, and of a listed
\* document when the query names documents
Eligible ==
    {i \in 1..Len(rStore) :
        /\ rStore[i].embedding.given
        /\ Scoped => \E j \in 1..Len(rQuery.documentIds.value) :
                         rQuery.documentIds.value[j] = rStore[i].documentId}

\* the similarity search has been made and did not fail
SearchDone == rpc \in {"generateResponse", "returned"} /\ ~rSearchFailed

ReturnedIds == {rReturned[i].id : i \in 1..Len(rReturned)}

\* C14: findSimilarChunks ranks exactly the eligible candidates: with a
\* non-empty documentIds every returned chunk is of a listed document and no
\* chunk of a listed document is left out of the ranking unless it has no
\* embedding; with documentIds empty or undefined all documents are searched;
\* a chunk without embedding is never returned.
C14_RanksEligible ==
    SearchDone =>
        /\ {rCandidates[i].id : i \in 1..Len(rCandidates)} = Eligible
        /\ Len(rCandidates) = Cardinality(Eligible)
        /\ ReturnedIds \subseteq Eligible
        /\ \A i \in 1..Len(rReturned) :
               /\ rReturned[i].documentId = rStore[rReturned[i].id].documentId
               /\ rStore[rReturned[i].id].embedding.given
               /\ Scoped => rReturned[i].documentId
                                \in Range(rQuery.documentIds.value)
        /\ rLimit >= Cardinality(Eligible) => ReturnedIds = Eligible

\* a scoped search over a table holding a chunk of another document and a
\* chunk of the listed document without embedding
C14_Witness ==
    /\ rpc = "returned"
    /\ rStore = MixedStore
    /\ rQuery.documentIds = Given(<<"d1">>)
    /\ rQuery.embedding = <<1, 0>>
    /\ ~rSearchFailed
    /\ ReturnedIds = {4, 5}

\* the score of the stored row with this id
SimilarityOf(id) ==
    CalculateCosineSimilarity(rQuery.embedding, rStore[id].embedding.value)

\* row a ranks before row b: a higher score, or the same score and listed first
RanksBefore(a, b) ==
    \/ CosineLess(SimilarityOf(b), SimilarityOf(a))
    \/ /\ ~CosineLess(SimilarityOf(a), SimilarityOf(b))
       /\ a < b

\* C15: the returned chunks are in non-increasing order of similarity, they
\* are the limit highest-scoring eligible candidates, and candidates with
\* equal scores keep the order the candidates were listed in.
C15_TopKStable ==
    SearchDone =>
        /\ Len(rReturned) = Min2(rLimit, Cardinality(Eligible))
        /\ Cardinality(ReturnedIds) = Len(rReturned)
        /\ \A i \in 1..(Len(rReturned) - 1) :
               /\ ~CosineLess(SimilarityOf(rReturned[i].id),
                              SimilarityOf(rReturned[i + 1].id))
               /\ RanksBefore(rReturned[i].id, rReturned[i + 1].id)
        /\ \A c \in Eligible \ ReturnedIds : \A r \in ReturnedIds :
               RanksBefore(r, c)

\* an unscoped search that reorders, keeps a tie in listing order and truncates
C15_Witness ==
    /\ rpc = "returned"
    /\ rStore = MixedStore
    /\ ~Scoped
    /\ rQuery.embedding = <<1, 0>>
    /\ rLimit = 2
    /\ rReturned = <<[id |-> 3, documentId |-> "d2"],
                     [id |-> 4, documentId |-> "d1"]>>

\* there are candidates and none has the dimensionality of the query embedding
QueryDimensionDiffers ==
    /\ Eligible # {}
    /\ \A i \in Eligible :
           Len(rStore[i].embedding.value) # Len(rQuery.embedding)

\* C16: when the dimensionality of the query embedding differs from that of
\* the candidates, findSimilarChunks fails with InvalidQueryRepresentationError
\* and returns no ranked list.
C16_MismatchFails ==
    (rEntry = "findSimilarChunks" /\ rpc \in {"returned", "threw"}
        /\ ~rDbFails /\ QueryDimensionDiffers)
    => (rpc = "threw" /\ rThrown = "InvalidQueryRepresentationError")

\* C17: a failure of the similarity search is never turned into an empty
\* result: when findSimilarChunks throws, processQuery fails with an error; it
\* goes on to build an answer from an empty chunk set only when the search
\* succeeded and found nothing.
C17_SearchFailureSurfaces ==
    (rEntry = "processQuery" /\ rSearchFailed)
    => rpc \notin {"generateResponse", "returned"}

-----------------------------------------------------------------------------
(* Properties of the document lifecycle *)

IsPrefix(s, t) == Len(s) <= Len(t) /\ s = SubSeq(t, 1, Len(s))

\* C18: a document's status only moves forward along uploading -> processing
\* -> (processed | error): the row is created as uploading, no status is
\* skipped or gone back to, and processed and error are never changed again.
C18_ForwardOnly ==
    \A d \in DocIds :
        /\ \/ IsPrefix(statusLog[d], <<"uploading", "processing", "processed">>)
           \/ IsPrefix(statusLog[d], <<"uploading", "processing", "error">>)
        /\ docStatus[d] = IF statusLog[d] = <<>> THEN "none"
                          ELSE statusLog[d][Len(statusLog[d])]

\* one document went all the way to processed and the other to error
C18_Witness ==
    /\ statusLog["d1"] = <<"uploading", "processing", "processed">>
    /\ statusLog["d2"] = <<"uploading", "processing", "error">>
    /\ upc["d1"] = "done"

\* C19: under fair scheduling every document that enters processing
\* eventually reaches processed or error, whatever the outcome of chunking,
\* embedding generation and storage (the run where both writes of the error
\* status are rejected is left aside).
C19_EventuallyTerminal ==
    \A d \in DocIds :
        (docStatus[d] = "processing")
            ~> (docStatus[d] \in {"processed", "error"} \/ upc[d] = "abandoned")

-----------------------------------------------------------------------------
(* Properties of the window boundaries *)

BreakCharacters == {".", "\n", " "}

\* the indices at or before e at which the content has '.', newline or space
BreakIndicesUpTo(e) ==
    {i \in 0..(Len(content) - 1) : i <= e /\ CharAt(content, i) \in BreakCharacters}

\* the end the window starting at start must have
SnappedEnd(start) ==
    LET e == start + chunkSize
        B == BreakIndicesUpTo(e)
    IN  IF e >= Len(content) THEN Len(content)
        ELSE IF B # {} /\ 2 * SetMax(B) > 2 * start + chunkSize
             THEN SetMax(B) + 1
             ELSE e

\* C26: a window whose raw end e = start + chunkSize lies before the end of
\* the content ends at b + 1 when b, the largest index <= e holding '.',
\* newline or space, is past start + chunkSize / 2, and at e otherwise (also
\* when there is no such character); a window whose raw end reaches the end of
\* the content ends at len(content).
C26_WindowSnap ==
    \A w \in DOMAIN windows : windows[w].end = SnappedEnd(windows[w].start)

\* the same for the windows that start inside the content
C26_WindowSnapFromValidStart ==
    \A w \in DOMAIN windows :
        windows[w].start >= 0 => windows[w].end = SnappedEnd(windows[w].start)

\* a call that walked a snapped window, an unsnapped window with a break
\* character before the midpoint, and a window reaching the end
C26_Witness ==
    /\ pc = "done"
    /\ \E w \in DOMAIN windows :
          /\ windows[w].start + chunkSize < Len(content)
          /\ windows[w].end # windows[w].start + chunkSize
    /\ \E w \in DOMAIN windows :
          /\ windows[w].start + chunkSize < Len(content)
          /\ windows[w].end = windows[w].start + chunkSize
          /\ BreakIndicesUpTo(windows[w].start + chunkSize) # {}
    /\ windows[Len(windows)].end = Len(content)

\* C29: every chunk emitted by chunkDocument spans at most the chunk size:
\* endIndex - startIndex <= chunkSize and its content is no longer than
\* chunkSize, wherever '.', newline and space lie relative to the boundary.
C29_ChunkWithinSize ==
    \A i \in DOMAIN chunks :
        /\ chunks[i].endIndex - chunks[i].startIndex <= chunkSize
        /\ Len(chunks[i].content) <= chunkSize

\* the same for the chunks of a service without overlap, whose windows all
\* start inside the content
C29_ChunkWithinSizeNoOverlap ==
    chunkOverlap = 0 => C29_ChunkWithinSize


-----------------------------------------------------------------------------
(* calculateImportance and extractKeywords of DocumentChunkingService        *)

Digits == "0123456789"

CharIn(c, s) == \E i \in 1..Len(s) : SubSeq(s, i, i) = c

IsDigit(c) == CharIn(c, Digits)
IsUpper(c) == CharIn(c, UpperCaseLetters)
IsLower(c) == CharIn(c, LowerCaseLetters)

\* \w of a JavaScript regular expression
IsWordChar(c) == IsDigit(c) \/ IsUpper(c) \/ IsLower(c) \/ c = "_"

IsWordCharAt(s, i) == i >= 0 /\ i < Len(s) /\ IsWordChar(CharAt(s, i))

\* \b between the characters at i - 1 and i
WordBoundaryAt(s, i) == IsWordCharAt(s, i - 1) # IsWordCharAt(s, i)

\* /\b(w)\b/i for a lower-case word w
ContainsWord(s, w) ==
    \E i \in 0..(Len(s) - Len(w)) :
        /\ ToLowerCase(SubSeq(s, i + 1, i + Len(w))) = w
        /\ WordBoundaryAt(s, i)
        /\ WordBoundaryAt(s, i + Len(w))

ContainsAnyWord(s, words) == \E w \in words : ContainsWord(s, w)

\* a percentage pattern that needs a decimal point: /\d+\.\d+%/
HasPercentage_DecimalOnly(s) ==
    \E i \in 0..(Len(s) - 4) :
        /\ IsDigit(CharAt(s, i))
        /\ CharAt(s, i + 1) = "."
        /\ IsDigit(CharAt(s, i + 2))
        /\ CharAt(s, i + 3) = "%"

\* /\d+%|\d+\.\d+%/ : either alternative ends with a digit followed by "%",
\* and a digit followed by "%" matches the first
HasPercentage(s) ==
    \E i \in 0..(Len(s) - 2) : IsDigit(CharAt(s, i)) /\ CharAt(s, i + 1) = "%"

\* /\b\d{4}\b/
HasYear(s) ==
    \E i \in 0..(Len(s) - 4) :
        /\ \A k \in i..(i + 3) : IsDigit(CharAt(s, k))
        /\ WordBoundaryAt(s, i)
        /\ WordBoundaryAt(s, i + 4)

\* /[A-Z][a-z]+ [A-Z][a-z]+/ , j the index of the space
HasProperNounPair(s) ==
    \E j \in 2..(Len(s) - 3) :
        /\ CharAt(s, j) = " "
        /\ IsUpper(CharAt(s, j + 1))
        /\ IsLower(CharAt(s, j + 2))
        /\ \E i \in 0..(j - 2) :
               /\ IsUpper(CharAt(s, i))
               /\ \A k \in (i + 1)..(j - 1) : IsLower(CharAt(s, k))

\* importanceFactors, the weights in hundredths
importanceFactors ==
    << [pattern |-> "importance", weight |-> 20],
       [pattern |-> "summary",    weight |-> 15],
       [pattern |-> "analysis",   weight |-> 10],
       [pattern |-> "percentage", weight |-> 10],
       [pattern |-> "year",       weight |-> 5],
       [pattern |-> "properNoun", weight |-> 5] >>

\* pattern.test(content)
PatternTest(pattern, s) ==
    CASE pattern = "importance" ->
             ContainsAnyWord(s, {"important", "key", "main", "primary",
                                 "critical", "essential"})
      [] pattern = "summary" ->
             ContainsAnyWord(s, {"summary", "conclusion", "overview", "abstract"})
      [] pattern = "analysis" ->
             ContainsAnyWord(s, {"methodology", "results", "findings", "analysis"})
      [] pattern = "percentage" -> HasPercentage(s)
      [] pattern = "year" -> HasYear(s)
      [] pattern = "properNoun" -> HasProperNounPair(s)

RECURSIVE AddFactors(_, _, _)
AddFactors(score, s, f) ==
    IF f > Len(importanceFactors) THEN score
    ELSE AddFactors(IF PatternTest(importanceFactors[f].pattern, s)
                        THEN score + importanceFactors[f].weight ELSE score,
                    s, f + 1)

\* content.split(/\s+/).length: one piece more than there are runs of
\* whitespace
SplitLength(s) ==
    1 + Cardinality({i \in 0..(Len(s) - 1) :
                        /\ IsWhitespace(CharAt(s, i))
                        /\ i = 0 \/ ~IsWhitespace(CharAt(s, i - 1))})

\* the score before the final clamp, in hundredths
UnclampedImportance(s) ==
    LET wordCount == SplitLength(s)
        score == AddFactors(50, s, 1)
        score2 == IF wordCount > 50 THEN score + 10 ELSE score
    IN  IF wordCount > 100 THEN score2 + 5 ELSE score2

CalculateImportance_NoClamp(s) == UnclampedImportance(s)

\* Math.max(0, Math.min(score, 1.0)), in hundredths
CalculateImportance(s) == Max2(0, Min2(UnclampedImportance(s), 100))

RECURSIVE JoinWords(_)
JoinWords(ws) ==
    IF ws = <<>> THEN ""
    ELSE IF Len(ws) = 1 THEN ws[1]
    ELSE ws[1] \o " " \o JoinWords(Tail(ws))

\* the pieces the model's contents are put together from: one for each
\* importance factor, a second importance word, and filler words
TextFragments ==
    <<"critical", "50%", "summary", "analysis", "2024", "New York", "important">>

FillerCounts == {0, 50, 100}

RECURSIVE SelectFragments(_, _)
SelectFragments(chosen, f) ==
    IF f > Len(TextFragments) THEN <<>>
    ELSE (IF f \in chosen THEN <<TextFragments[f]>> ELSE <<>>)
             \o SelectFragments(chosen, f + 1)

\* n filler words, each after a space
RECURSIVE FillerWords(_)
FillerWords(n) ==
    IF n = 0 THEN ""
    ELSE IF n = 1 THEN " x"
    ELSE FillerWords(n \div 2) \o FillerWords(n - (n \div 2))

FragmentContent(chosen, filler) ==
    JoinWords(SelectFragments(chosen, 1)) \o FillerWords(filler)

\* contents that come close to a pattern without matching it, or match it
\* in another form
NearMissContents ==
    { "keynote", "12345", "50 %", "new york", "New york", "CRITICAL",
      "3.5% up", "in 1999.", "x2024", "Main-Results", "NEW York City" }

ImportanceContents ==
    { FragmentContent(chosen, filler) :
          chosen \in SUBSET (1..Len(TextFragments)), filler \in FillerCounts }
    \cup NearMissContents

CalculateImportanceCall ==
    /\ tForm = "calculateImportanceCall"
    /\ tForm' = "calculateImportance"
    /\ tResult' = CalculateImportance(tArg)
    /\ UNCHANGED <<tArg, notTextVars>>

MaxTokens == 3

\* maxKeywords of extractKeywords
MaxKeywords == 10

stopWords ==
    { "the", "a", "an", "and", "or", "but", "in", "on", "at", "to", "for", "of",
      "with", "by", "is", "are", "was", "were", "be", "been", "being", "have",
      "has", "had", "do", "does", "did", "will", "would", "could", "should",
      "may", "might", "can", "this", "that", "these", "those", "i", "you", "he",
      "she", "it", "we", "they", "me", "him", "her", "us", "them" }

\* replace(/[^\w\s]/g, '')
RECURSIVE StripNonWord(_)
StripNonWord(s) ==
    IF s = "" THEN ""
    ELSE (IF IsWordChar(Head(s)) \/ IsWhitespace(Head(s)) THEN Head(s) ELSE "")
             \o StripNonWord(Tail(s))

IsEligibleWord(word) == Len(word) > 3 /\ word \notin stopWords

\* the words array of extractKeywords
KeywordTokens(s) ==
    SelectSeq(SplitWhitespace(StripNonWord(ToLowerCase(s))), IsEligibleWord)

\* wordCount[word] after the counting loop
WordCountOf(words, word) == Cardinality({k \in DOMAIN words : words[k] = word})

DigitValue(c) == SetMin({i \in 1..Len(Digits) : SubSeq(Digits, i, i) = c}) - 1

RECURSIVE ParseDigits(_, _)
ParseDigits(s, acc) ==
    IF s = "" THEN acc ELSE ParseDigits(Tail(s), 10 * acc + DigitValue(Head(s)))

\* a property key that is an array index: the canonical decimal form of an
\* integer below 2^32 - 1
IsArrayIndex(key) ==
    /\ key # ""
    /\ \A i \in 1..Len(key) : IsDigit(SubSeq(key, i, i))
    /\ Len(key) = 1 \/ Head(key) # "0"
    /\ Len(key) <= 9

\* insert an array-index key into keys sorted by ascending numeric value
RECURSIVE InsertIndexKey(_, _)
InsertIndexKey(keys, key) ==
    IF keys = <<>> THEN <<key>>
    ELSE IF ParseDigits(key, 0) < ParseDigits(Head(keys), 0) THEN <<key>> \o keys
    ELSE <<Head(keys)>> \o InsertIndexKey(Tail(keys), key)

RECURSIVE SortIndexKeys(_, _)
SortIndexKeys(acc, rest) ==
    IF rest = <<>> THEN acc
    ELSE SortIndexKeys(InsertIndexKey(acc, Head(rest)), Tail(rest))

\* the own keys of the wordCount object in the order Object.entries lists
\* them: array-index keys in ascending numeric order, then the other keys in
\* the order they were created
OwnKeys(words) ==
    LET created == DedupInto(<<>>, words)
    IN  SortIndexKeys(<<>>, SelectSeq(created, IsArrayIndex))
            \o SelectSeq(created, LAMBDA key : ~IsArrayIndex(key))

\* Array.prototype.sort(([, a], [, b]) => b - a) is stable: an entry goes
\* after the entries whose count is at least its own
RECURSIVE InsertByCount(_, _, _)
InsertByCount(sorted, key, words) ==
    IF sorted = <<>> THEN <<key>>
    ELSE IF WordCountOf(words, Head(sorted)) >= WordCountOf(words, key)
         THEN <<Head(sorted)>> \o InsertByCount(Tail(sorted), key, words)
         ELSE <<key>> \o sorted

RECURSIVE SortByCountInto(_, _, _)
SortByCountInto(acc, rest, words) ==
    IF rest = <<>> THEN acc
    ELSE SortByCountInto(InsertByCount(acc, Head(rest), words), Tail(rest), words)

ExtractKeywords(s) ==
    LET words == KeywordTokens(s)
        sorted == SortByCountInto(<<>>, OwnKeys(words), words)
    IN  SubSeq(sorted, 1, Min2(MaxKeywords, Len(sorted)))

\* the words the model's contents are written with: ordinary words, words
\* with punctuation and capitals, stop words, short words, and tokens made
\* only of digits
KeywordVocabulary ==
    <<"alpha", "Beta!", "2024", "1999", "0123", "with", "cat", "al-pha">>

TokenSequences == UNION {[1..n -> 1..Len(KeywordVocabulary)] : n \in 0..MaxTokens}

\* a content with more than maxKeywords distinct eligible words
LongKeywordContent ==
    "delta delta echo foxtrot golf hotel india juliet kilo lima mike november oscar echo"

KeywordContents ==
    { JoinWords([k \in DOMAIN ts |-> KeywordVocabulary[ts[k]]]) : ts \in TokenSequences }
    \cup { LongKeywordContent, "  alpha   beta ", "12345 alpha 2024 2024" }

ExtractKeywordsCall ==
    /\ tForm = "extractKeywordsCall"
    /\ tForm' = "extractKeywords"
    /\ tResult' = ExtractKeywords(tArg)
    /\ UNCHANGED <<tArg, notTextVars>>

TextInit ==
    /\ \/ tForm = "calculateImportanceCall" /\ tArg \in ImportanceContents
       \/ tForm = "extractKeywordsCall" /\ tArg \in KeywordContents
    /\ tResult = <<>>
    /\ ChunkIdle
    /\ MergeIdle
    /\ SimIdle
    /\ RankIdle
    /\ LifeIdle
    /\ RetryIdle
    /\ PollIdle
    /\ EmbedIdle
    /\ SourceIdle

TextNext ==
    \/ CalculateImportanceCall
    \/ ExtractKeywordsCall

SpecText == TextInit /\ [][TextNext]_vars

(* Properties of the chunk metadata *)

\* C22: the importance score of every content is within [0,1]
C22_ImportanceInUnitInterval ==
    tForm = "calculateImportance" => tResult >= 0 /\ tResult <= 100

\* a content whose bonuses add up to more than 1 and were clamped
C22_Witness ==
    /\ tForm = "calculateImportance"
    /\ UnclampedImportance(tArg) > 100
    /\ tResult = 100

HasMarkers(s) == ContainsWord(s, "critical") \/ HasPercentage(s)

\* the content with the two markers added
WithMarkers(s) == IF s = "" THEN "50% critical" ELSE s \o " 50% critical"

\* C23: with "critical" and a percentage added the score is strictly higher
C23_MarkersStrictlyHigher ==
    tForm = "calculateImportance" /\ ~HasMarkers(tArg)
        => CalculateImportance(WithMarkers(tArg)) > tResult

\* C23, amended: strictly higher when the score without the markers is below
\* 1, and never lower
C23_MarkersHigherBelowOne ==
    tForm = "calculateImportance" /\ ~HasMarkers(tArg)
        => /\ tResult < 100 => CalculateImportance(WithMarkers(tArg)) > tResult
           /\ tResult = 100 => CalculateImportance(WithMarkers(tArg)) = 100

\* a content without the markers, below 1, that triggers other factors
C23_Witness ==
    /\ tForm = "calculateImportance"
    /\ ~HasMarkers(tArg)
    /\ tResult > 50
    /\ tResult < 100
    /\ CalculateImportance(WithMarkers(tArg)) > tResult

FirstAppearance(words, word) == SetMin({k \in DOMAIN words : words[k] = word})

\* word a comes before word b in the claimed order
KeywordBefore(words, a, b) ==
    \/ WordCountOf(words, a) > WordCountOf(words, b)
    \/ /\ WordCountOf(words, a) = WordCountOf(words, b)
       /\ FirstAppearance(words, a) < FirstAppearance(words, b)

\* the first 10 distinct eligible tokens by descending frequency, ties by
\* first appearance
IsClaimedKeywords(r, words) ==
    /\ Len(r) = Min2(MaxKeywords, Cardinality(Range(words)))
    /\ Range(r) \subseteq Range(words)
    /\ \A i, j \in DOMAIN r : i < j => KeywordBefore(words, r[i], r[j])
    /\ \A w \in Range(words) \ Range(r) : \A i \in DOMAIN r : KeywordBefore(words, r[i], w)

EligibleTokens(s) ==
    SelectSeq(SplitWhitespace(StripNonWord(ToLowerCase(s))),
              LAMBDA word : Len(word) > 3 /\ word \notin stopWords)

\* C24: the keywords are the first 10 distinct eligible tokens by descending
\* frequency, tokens of equal frequency by first appearance
C24_KeywordsByFrequency ==
    tForm = "extractKeywords" => IsClaimedKeywords(tResult, EligibleTokens(tArg))

\* the same for contents without a token that is an array index
C24_KeywordsByFrequencyNoIndexKeys ==
    (/\ tForm = "extractKeywords"
     /\ \A k \in DOMAIN EligibleTokens(tArg) : ~IsArrayIndex(EligibleTokens(tArg)[k]))
        => IsClaimedKeywords(tResult, EligibleTokens(tArg))


-----------------------------------------------------------------------------
(* retryWithBackoff, of utils and of error-handling                          *)

MaxRetriesBound == 3

\* baseDelay = 1000 and maxDelay = 10000, in milliseconds
DefaultBaseDelay == 1000
DefaultMaxDelay == 10000

RetryImplementations == {"utils", "error-handling"}

\* how an invocation of fn settles: with a value, with an AppError whose
\* retryable flag is true or false, or with an error that is no AppError
RetryOutcomes == {"value", "retryableAppError", "nonRetryableAppError", "otherError"}

UndefinedError == [kind |-> "undefined", invocation |-> 0]

\* what the n-th invocation of fn rejects with
ErrorOf(n) == [kind |-> rtOutcomes[n], invocation |-> n]

RECURSIVE Pow2(_)
Pow2(n) == IF n = 0 THEN 1 ELSE 2 * Pow2(n - 1)

\* a catch block that keeps the first error
CaughtError_KeepsFirst(lastError, error) ==
    IF lastError = UndefinedError THEN error ELSE lastError

\* lastError = error as Error
CaughtError(lastError, error) == error

\* error instanceof AppError && !error.retryable, of error-handling only
NotRetryable(impl, error) ==
    impl = "error-handling" /\ error.kind = "nonRetryableAppError"

\* the delays setTimeout can be given after a failed attempt: utils sleeps
\* baseDelay * 2^attempt, error-handling caps it at maxDelay and adds a
\* jitter of Math.random() * 0.1 * delay (here none, or half of the most)
RetryDelays(impl, attempt) ==
    LET raw == DefaultBaseDelay * Pow2(attempt)
        delay == Min2(raw, DefaultMaxDelay)
    IN  IF impl = "utils" THEN {raw} ELSE {delay, delay + (delay \div 20)}

\* for (attempt = 0; attempt <= maxRetries; ...) try { return await fn() }
RetryInvoke ==
    /\ rtpc = "loop"
    /\ rtAttempt <= rtMaxRetries
    /\ rtInvocations' = rtInvocations + 1
    /\ rtInFlight' = rtInFlight + 1
    /\ rtpc' = "awaiting"
    /\ UNCHANGED <<rtImpl, rtMaxRetries, rtOutcomes, rtAttempt, rtSleeps,
                   rtLastError, rtResult, notRetryVars>>

\* fn() resolves: return its value
RetryReturn ==
    /\ rtpc = "awaiting"
    /\ rtOutcomes[rtInvocations] = "value"
    /\ rtInFlight' = rtInFlight - 1
    /\ rtpc' = "returned"
    /\ rtResult' = [kind |-> "value", invocation |-> rtInvocations]
    /\ UNCHANGED <<rtImpl, rtMaxRetries, rtOutcomes, rtAttempt, rtInvocations,
                   rtSleeps, rtLastError, notRetryVars>>

\* fn() rejects: the catch block, up to the throw or the start of the sleep
RetryCatch ==
    /\ rtpc = "awaiting"
    /\ rtOutcomes[rtInvocations] # "value"
    /\ rtInFlight' = rtInFlight - 1
    /\ rtLastError' = CaughtError(rtLastError, ErrorOf(rtInvocations))
    /\ IF NotRetryable(rtImpl, ErrorOf(rtInvocations))
       THEN /\ rtpc' = "thrown"
            /\ rtResult' = ErrorOf(rtInvocations)
            /\ UNCHANGED rtSleeps
       ELSE IF rtAttempt = rtMaxRetries
       THEN /\ rtpc' = "thrown"
            /\ rtResult' = rtLastError'
            /\ UNCHANGED rtSleeps
       ELSE /\ rtpc' = "sleeping"
            /\ \E delay \in RetryDelays(rtImpl, rtAttempt) :
                   rtSleeps' = Append(rtSleeps, delay)
            /\ UNCHANGED rtResult
    /\ UNCHANGED <<rtImpl, rtMaxRetries, rtOutcomes, rtAttempt, rtInvocations,
                   notRetryVars>>

\* the timer fires: attempt++
RetryWake ==
    /\ rtpc = "sleeping"
    /\ rtAttempt' = rtAttempt + 1
    /\ rtpc' = "loop"
    /\ UNCHANGED <<rtImpl, rtMaxRetries, rtOutcomes, rtInvocations, rtInFlight,
                   rtSleeps, rtLastError, rtResult, notRetryVars>>

\* the loop condition fails: throw lastError!
RetryLoopExit ==
    /\ rtpc = "loop"
    /\ rtAttempt > rtMaxRetries
    /\ rtpc' = "thrown"
    /\ rtResult' = rtLastError
    /\ UNCHANGED <<rtImpl, rtMaxRetries, rtOutcomes, rtAttempt, rtInvocations,
                   rtInFlight, rtSleeps, rtLastError, notRetryVars>>

RetryInit ==
    /\ rtImpl \in RetryImplementations
    /\ \E m \in (-1)..MaxRetriesBound :
           /\ rtMaxRetries = m
           /\ rtOutcomes \in [1..(m + 1) -> RetryOutcomes]
    /\ rtAttempt = 0
    /\ rtpc = "loop"
    /\ rtInvocations = 0
    /\ rtInFlight = 0
    /\ rtSleeps = <<>>
    /\ rtLastError = UndefinedError
    /\ rtResult = <<>>
    /\ ChunkIdle
    /\ MergeIdle
    /\ SimIdle
    /\ RankIdle
    /\ LifeIdle
    /\ TextIdle
    /\ PollIdle
    /\ EmbedIdle
    /\ SourceIdle

RetryNext ==
    \/ RetryInvoke
    \/ RetryReturn
    \/ RetryCatch
    \/ RetryWake
    \/ RetryLoopExit

SpecRetry == RetryInit /\ [][RetryNext]_vars

(* Properties of retryWithBackoff *)

\* the invocations of fn that have settled
SettledInvocations == 1..(rtInvocations - rtInFlight)

RetrySettled == rtpc \in {"returned", "thrown"}

\* C25: fn is invoked at most maxRetries + 1 times, one invocation at a time;
\* the first success is returned and ends the invocations; when all
\* maxRetries + 1 invocations fail the last one's error is thrown
C25_BoundedAttempts ==
    /\ rtInvocations <= Max2(0, rtMaxRetries + 1)
    /\ rtInFlight \in {0, 1}
    /\ rtpc = "loop" \/ rtpc = "sleeping" => rtInFlight = 0
    /\ \A n \in SettledInvocations : rtOutcomes[n] = "value" =>
           /\ n = rtInvocations
           /\ rtpc = "returned"
           /\ rtResult = [kind |-> "value", invocation |-> n]
    /\ rtpc = "returned" => rtOutcomes[rtInvocations] = "value"
    /\ (/\ RetrySettled
        /\ rtInvocations = rtMaxRetries + 1
        /\ rtInvocations >= 1
        /\ \A n \in 1..rtInvocations : rtOutcomes[n] # "value")
           => rtpc = "thrown" /\ rtResult = ErrorOf(rtInvocations)

\* all of three or more invocations failed, not all the same way
C25_Witness ==
    /\ rtpc = "thrown"
    /\ rtInvocations = rtMaxRetries + 1
    /\ rtInvocations >= 3
    /\ rtResult = ErrorOf(rtInvocations)
    /\ rtOutcomes[1] # rtOutcomes[rtInvocations]

\* a success after failures ends the invocations early
C25_WitnessSuccess ==
    /\ rtpc = "returned"
    /\ rtInvocations > 1
    /\ rtInvocations < rtMaxRetries + 1

\* C27: when fn fails with a non-retryable AppError, fn has been invoked
\* exactly once, nothing was slept, and that error is thrown
C27_NonRetryableNotRetried ==
    \A n \in SettledInvocations : rtOutcomes[n] = "nonRetryableAppError" =>
        /\ rtInvocations = 1
        /\ rtSleeps = <<>>
        /\ rtpc = "thrown"
        /\ rtResult = ErrorOf(n)

\* the same of error-handling alone, for the failure of any attempt: it is
\* the last invocation, nothing is slept after it, and its error is thrown
C27_ErrorHandlingStopsAtNonRetryable ==
    rtImpl = "error-handling" =>
        \A n \in SettledInvocations : rtOutcomes[n] = "nonRetryableAppError" =>
            /\ rtInvocations = n
            /\ Len(rtSleeps) = n - 1
            /\ rtpc = "thrown"
            /\ rtResult = ErrorOf(n)

\* the same of error-handling alone, for a failure of the first attempt
C27_ErrorHandlingFirstAttempt ==
    rtImpl = "error-handling" /\ rtInvocations - rtInFlight >= 1
                              /\ rtOutcomes[1] = "nonRetryableAppError"
        => /\ rtInvocations = 1
           /\ rtSleeps = <<>>
           /\ rtpc = "thrown"
           /\ rtResult = ErrorOf(1)


-----------------------------------------------------------------------------
(* DocumentAssistantClient: handleFileUpload, loadDocuments and              *)
(* pollDocumentStatus                                                        *)

\* maxAttempts of pollDocumentStatus
PollMaxAttempts == 30

\* useState<Document[]>([]): the documents of the first render, which do not
\* hold the document uploaded later
DocumentsAtFirstRender == "absent"

\* handleFileUpload is memoised with no dependencies, so the
\* pollDocumentStatus it calls is the one of the first render, whose
\* documents is the value of that render
CapturedDocuments(current) == DocumentsAtFirstRender

\* the upload's processing ends on the server
ProcessingEnds ==
    /\ ppc # "unused"
    /\ pServerStatus = "processing"
    /\ pServerStatus' \in {"processed", "error"}
    /\ UNCHANGED <<pDocuments, pCaptured, pAttempt, ppc, pFetched, pCompleted,
                   pUiState, notPollVars>>

\* attempt < maxAttempts and the 2 s timer fires
PollTimerFires ==
    /\ ppc = "sleeping"
    /\ pAttempt < PollMaxAttempts
    /\ ppc' = "loading"
    /\ UNCHANGED <<pServerStatus, pDocuments, pCaptured, pAttempt, pFetched,
                   pCompleted, pUiState, notPollVars>>

\* await loadDocuments(): setDocuments(result.data) when the fetch succeeds;
\* a failed fetch is logged inside loadDocuments and changes nothing
PollLoadDocuments ==
    /\ ppc = "loading"
    /\ \/ pDocuments' = pServerStatus /\ pFetched' = pServerStatus
       \/ pFetched' = "failed" /\ UNCHANGED pDocuments
    /\ ppc' = "checking"
    /\ UNCHANGED <<pServerStatus, pCaptured, pAttempt, pCompleted, pUiState,
                   notPollVars>>

\* documents.find(doc => doc.id === documentId) and the two status tests
PollCheck ==
    /\ ppc = "checking"
    /\ pCompleted' = pFetched
    /\ IF pCaptured = "processed"
       THEN pUiState' = "processed successfully" /\ ppc' = "returned"
                                                  /\ UNCHANGED pAttempt
       ELSE IF pCaptured = "error"
       THEN pUiState' = "processing failed" /\ ppc' = "returned"
                                            /\ UNCHANGED pAttempt
       ELSE /\ pAttempt' = pAttempt + 1
            /\ ppc' = "sleeping"
            /\ UNCHANGED pUiState
    /\ UNCHANGED <<pServerStatus, pDocuments, pCaptured, pFetched, notPollVars>>

\* the loop ends after maxAttempts polls
PollTimeout ==
    /\ ppc = "sleeping"
    /\ pAttempt >= PollMaxAttempts
    /\ pUiState' = "taking longer than expected"
    /\ ppc' = "returned"
    /\ UNCHANGED <<pServerStatus, pDocuments, pCaptured, pAttempt, pFetched,
                   pCompleted, notPollVars>>

\* handleFileUpload after a successful upload: loadDocuments has run (its
\* fetch succeeded or failed) and pollDocumentStatus(documentId) is called
PollInit ==
    /\ pServerStatus \in {"processing", "processed", "error"}
    /\ pDocuments \in {"absent", pServerStatus}
    /\ pCaptured = CapturedDocuments(pDocuments)
    /\ pAttempt = 0
    /\ ppc = "sleeping"
    /\ pFetched = "none"
    /\ pCompleted = "none"
    /\ pUiState = "none"
    /\ ChunkIdle
    /\ MergeIdle
    /\ SimIdle
    /\ RankIdle
    /\ LifeIdle
    /\ TextIdle
    /\ RetryIdle
    /\ EmbedIdle
    /\ SourceIdle

PollNext ==
    \/ ProcessingEnds
    \/ PollTimerFires
    \/ PollLoadDocuments
    \/ PollCheck
    \/ PollTimeout

SpecPoll == PollInit /\ [][PollNext]_vars

(* Properties of the client's polling *)

\* C28: once a poll that fetched status processed (error) has completed, the
\* polling has stopped and reported the success (the failure); the timeout
\* is reported only after 30 polls with the document still in neither status
C28_PollReportsOutcome ==
    /\ pCompleted = "processed"
           => ppc = "returned" /\ pUiState = "processed successfully"
    /\ pCompleted = "error"
           => ppc = "returned" /\ pUiState = "processing failed"
    /\ pUiState = "taking longer than expected"
           => pAttempt = PollMaxAttempts /\ pServerStatus = "processing"

\* the part of C28 the code keeps: the timeout is reported after 30 polls
C28_TimeoutAfterAllPolls ==
    pUiState = "taking longer than expected" => pAttempt = PollMaxAttempts

\* what the polling does instead: it never reports success or failure
C28_NeverReportsOutcome ==
    pUiState \in {"none", "taking longer than expected"}


(* Properties of the embeddings of a processed document *)

RowsOf(d) == SelectSeq(lStore, LAMBDA row : row.documentId = d)

\* C21: a processed document's embedding calls have all completed with
\* success, every chunk of the chunker is stored with its own embedding, and
\* a document with a failed embedding call was never marked processed
C21_ProcessedHasAllEmbeddings ==
    \A d \in DocIds :
        /\ docStatus[d] = "processed" =>
               /\ {call.chunk : call \in Range(embCompleted[d])} = 1..docChunks[d]
               /\ \A call \in Range(embCompleted[d]) : call.ok
               /\ Len(RowsOf(d)) = docChunks[d]
               /\ \A i \in 1..docChunks[d] : \E k \in DOMAIN RowsOf(d) :
                      /\ RowsOf(d)[k].id = <<d, i>>
                      /\ RowsOf(d)[k].embedding = Given(EmbedQuery(i))
        /\ (\E call \in Range(embCompleted[d]) : ~call.ok)
               => \A k \in DOMAIN statusLog[d] : statusLog[d][k] # "processed"

\* a processed document of two chunks whose second chunk's call completed first
C21_Witness ==
    \E d \in DocIds :
        /\ docStatus[d] = "processed"
        /\ docChunks[d] = 2
        /\ embCompleted[d][1].chunk = 2

\* a document whose second call to complete failed ended in error
C21_WitnessFailure ==
    \E d \in DocIds :
        /\ docStatus[d] = "error"
        /\ Len(embCompleted[d]) = 2
        /\ ~embCompleted[d][2].ok


-----------------------------------------------------------------------------
(* The sources of a QueryResponse                                            *)

MaxSourceChunks == 2

SourceQuestions == {"ab", "Ab", "b"}

SourceContents == {"ab", "AB", "xy", "b"}

\* tables of up to MaxSourceChunks chunks of one document, each with an
\* embedding
SourceStores ==
    UNION {{[i \in 1..n |-> [id |-> i, documentId |-> "d1", embedding |-> Given(f[i])]] :
               f \in [1..n -> {<<1, 0>>, <<1, 1>>}]} : n \in 0..MaxSourceChunks}

\* processQuery called with a question whose embedding is [1, 0]
SourceInit ==
    /\ rStore \in SourceStores
    /\ rQuery \in [embedding : {<<1, 0>>}, documentIds : {Absent},
                   k : {Absent, Given(1)}]
    /\ rQuestion \in SourceQuestions
    /\ rContentOf \in [DOMAIN rStore -> SourceContents]
    /\ rSources = <<>>
    /\ rEntry = "processQuery"
    /\ rDbFails \in BOOLEAN
    /\ rpc = rEntry
    /\ rLimit = 0
    /\ rCandidates = <<>>
    /\ rSearchFailed = FALSE
    /\ rReturned = <<>>
    /\ rThrown = "none"
    /\ ChunkIdle
    /\ MergeIdle
    /\ SimIdle
    /\ LifeIdle
    /\ TextIdle
    /\ RetryIdle
    /\ PollIdle
    /\ EmbedIdle

SourceNext ==
    \/ ProcessQueryCall
    \/ FindRelevantChunksCall
    \/ GenerateResponse

SpecSources == SourceInit /\ [][SourceNext]_vars

(* Properties of the sources *)

FractionLess(r, s) == r.num * s.den < s.num * r.den

\* C30: the sources are in non-increasing order of relevanceScore
C30_SourcesByRelevance ==
    rpc = "returned" =>
        \A i, j \in DOMAIN rSources : i < j =>
            ~FractionLess(rSources[i].relevanceScore, rSources[j].relevanceScore)

\* what the sources keep: the chunks of the similarity search, in its order
C30_SourcesInSearchOrder ==
    rpc = "returned" =>
        /\ Len(rSources) = Len(rReturned)
        /\ \A k \in DOMAIN rSources : rSources[k].chunkId = rReturned[k].id

====
